---- MODULE Spec2Model ----
(***************************************************************************)
(* Model of the probability / expected-value pipeline of NBABetv1:         *)
(*   modeling.py            PropPredictor._calibrate_probability           *)
(*   expected_value.py      american_to_decimal, calculate_expected_value, *)
(*                          calculate_expected_value_from_american,        *)
(*                          calculate_kelly_criterion                      *)
(*   feature_engineering.py create_target_variable, create_training_data   *)
(*   main_workflow.py       process_prop                                   *)
(*                                                                         *)
(* Python floats are modelled as exact rationals (records n/d in lowest    *)
(* terms), plus the two non-numbers the code distinguishes: NaN and None.  *)
(***************************************************************************)
EXTENDS Integers, Sequences, FiniteSets, TLC

(***************************************************************************)
(* Bounds of the model.                                                    *)
(***************************************************************************)
\* raw probabilities are the multiples of 1/ProbSteps in [0,1]
ProbSteps == 20
\* implied probabilities are the multiples of 1/ImpliedSteps in [0,1]
ImpliedSteps == 10
\* longest game log handed to create_target_variable
MaxRows == 3
\* longest history returned by the historical store
MaxGames == 2
\* longest label series handed to PropPredictor.train
MaxLabels == 4
\* longest game log handed to prepare_features_for_prediction
MaxFeatRows == 10
\* most propositions in one scrape
MaxProps == 2
\* most propositions saved in processed_props
MaxTracked == 1
\* most games in a log given to create_training_data
MaxTrainRows == 5

(***************************************************************************)
(* Values: exact rationals, NaN, None.                                     *)
(***************************************************************************)
Abs(x) == IF x < 0 THEN -x ELSE x

RECURSIVE Gcd(_, _)
Gcd(a, b) == IF b = 0 THEN a ELSE Gcd(b, a % b)

\* the rational n/d (d # 0) in lowest terms with a positive denominator
Num(n, d) ==
    LET g == Gcd(Abs(n), Abs(d))
        s == IF d < 0 THEN -1 ELSE 1
    IN  [k |-> "num", n |-> s * (n \div g), d |-> s * (d \div g)]

NaN == [k |-> "nan", n |-> 0, d |-> 1]
NoneV == [k |-> "none", n |-> 0, d |-> 1]

IsNum(v) == v.k = "num"
IsNaN(v) == v.k = "nan"
IsNone(v) == v.k = "none"

Lcm(a, b) == (a \div Gcd(a, b)) * b

RAdd(a, b) ==
    LET l == Lcm(a.d, b.d)
    IN  Num(a.n * (l \div a.d) + b.n * (l \div b.d), l)
RNeg(a) == [k |-> "num", n |-> -a.n, d |-> a.d]
RSub(a, b) == RAdd(a, RNeg(b))
RMul(a, b) ==
    LET g1 == Gcd(Abs(a.n), b.d)
        g2 == Gcd(Abs(b.n), a.d)
    IN  Num((a.n \div g1) * (b.n \div g2), (a.d \div g2) * (b.d \div g1))
RDiv(a, b) == RMul(a, Num(b.d, b.n))
RLt(a, b) ==
    LET l == Lcm(a.d, b.d)
    IN  a.n * (l \div a.d) < b.n * (l \div b.d)
RLe(a, b) == ~RLt(b, a)
RAbs(a) == [k |-> "num", n |-> Abs(a.n), d |-> a.d]
RMax(a, b) == IF RLt(a, b) THEN b ELSE a
RMin(a, b) == IF RLt(b, a) THEN b ELSE a

Zero == Num(0, 1)
One == Num(1, 1)
\* a decimal literal written in hundredths: Pct(65) is 0.65
Pct(h) == Num(h, 100)

(***************************************************************************)
(* State.  Each group belongs to one part of the program; an action of one *)
(* part leaves the other groups unchanged.                                 *)
(***************************************************************************)
VARIABLES
    \* _calibrate_probability: the calls made with one implied probability
    cal_implied,   \* implied_prob argument of the calls ("unset" before it is chosen)
    cal_prev,      \* the previous call: [prob, out], or prob = None before it
    cal_last,      \* the latest call:   [prob, out]
    \* expected_value.py
    ev_call,       \* the pending call of an expected_value.py function and its result
    \* create_target_variable
    tgt_call,      \* the pending call and its result
    \* process_prop
    pp_call,       \* the pending call: its inputs, what its collaborators answered, its result
    \* PropPredictor
    pred,          \* the attributes of one PropPredictor instance
    pred_call,     \* the pending call of one of its methods and its result
    \* prepare_features_for_prediction
    feat_call,     \* the pending call and its result
    \* generate_betting_dataset
    batch,         \* the run in progress: its filters, propositions, passes and results
    \* track_outcomes.py
    processed_props,\* the processed_props table: the saved propositions, by id
    actual_stats,  \* what get_actual_stat answers for each proposition's player and game
    bet_tracking,  \* the committed rows of the bet_tracking table, in insertion order
    runs,          \* the runs of process_past_props: where each is in its loop
    track_log,     \* the outcome lines the runs have printed
    do_call,       \* the pending call of determine_outcome and its result
    \* create_training_data
    train_call,    \* the pending call with a whole log and the training set it returned
    \* process_prop, lines 73-150
    rec_call       \* the classifier's triple and the odds given to lines 73-150, and the record built

calVars == <<cal_implied, cal_prev, cal_last>>
evVars == <<ev_call>>
tgtVars == <<tgt_call>>
ppVars == <<pp_call>>
predVars == <<pred, pred_call>>
featVars == <<feat_call>>
batchVars == <<batch>>
trackVars == <<processed_props, actual_stats, bet_tracking, runs, track_log, do_call>>
trainVars == <<train_call>>
recVars == <<rec_call>>
vars == <<calVars, evVars, tgtVars, ppVars, predVars, featVars, batchVars, trackVars, trainVars, recVars>>

\* what an action of one part leaves unchanged: the other parts
exceptCal == <<evVars, tgtVars, ppVars, predVars, featVars, batchVars, trackVars, trainVars, recVars>>
exceptEv == <<calVars, tgtVars, ppVars, predVars, featVars, batchVars, trackVars, trainVars, recVars>>
exceptTgt == <<calVars, evVars, ppVars, predVars, featVars, batchVars, trackVars, trainVars, recVars>>
exceptPp == <<calVars, evVars, tgtVars, predVars, featVars, batchVars, trackVars, trainVars, recVars>>
exceptPred == <<calVars, evVars, tgtVars, ppVars, featVars, batchVars, trackVars, trainVars, recVars>>
exceptFeat == <<calVars, evVars, tgtVars, ppVars, predVars, batchVars, trackVars, trainVars, recVars>>
exceptBatch == <<calVars, evVars, tgtVars, ppVars, predVars, featVars, trackVars, trainVars, recVars>>
exceptTrack == <<calVars, evVars, tgtVars, ppVars, predVars, featVars, batchVars, trainVars, recVars>>
exceptTrain == <<calVars, evVars, tgtVars, ppVars, predVars, featVars, batchVars, trackVars, recVars>>
exceptRec == <<calVars, evVars, tgtVars, ppVars, predVars, featVars, batchVars, trackVars, trainVars>>

(***************************************************************************)
(* modeling.py : PropPredictor._calibrate_probability                      *)
(***************************************************************************)
\* the remap with the 0.75-0.90 segment falling instead of rising
PiecewiseCalibrate_falling(prob0) ==
    LET prob == RMax(Zero, RMin(One, prob0))
    IN  IF RLt(Pct(90), prob)
          THEN RAdd(Pct(65), RMul(RDiv(RSub(prob, Pct(90)), Pct(10)), Pct(10)))
        ELSE IF RLt(Pct(75), prob)
          THEN RSub(Pct(65), RMul(RDiv(RSub(prob, Pct(75)), Pct(15)), Pct(5)))
        ELSE IF RLt(prob, Pct(10))
          THEN RAdd(Pct(10), RMul(RDiv(prob, Pct(10)), Pct(10)))
        ELSE RAdd(Pct(20), RMul(RDiv(RSub(prob, Pct(10)), Pct(65)), Pct(40)))

\* the remap with the middle segment stretched onto [0.20, 0.65]
PiecewiseCalibrate_wide(prob0) ==
    LET prob == RMax(Zero, RMin(One, prob0))
    IN  IF RLt(Pct(90), prob)
          THEN RAdd(Pct(65), RMul(RDiv(RSub(prob, Pct(90)), Pct(10)), Pct(10)))
        ELSE IF RLt(Pct(75), prob)
          THEN RAdd(Pct(60), RMul(RDiv(RSub(prob, Pct(75)), Pct(15)), Pct(5)))
        ELSE IF RLt(prob, Pct(10))
          THEN RAdd(Pct(10), RMul(RDiv(prob, Pct(10)), Pct(10)))
        ELSE RAdd(Pct(20), RMul(RDiv(RSub(prob, Pct(10)), Pct(65)), Pct(45)))

\* lines 373-395: clamp to [0,1], then the four-segment piecewise remap
PiecewiseCalibrate(prob0) ==
    LET prob == RMax(Zero, RMin(One, prob0))
    IN  IF RLt(Pct(90), prob)
          THEN RAdd(Pct(65), RMul(RDiv(RSub(prob, Pct(90)), Pct(10)), Pct(10)))
        ELSE IF RLt(Pct(75), prob)
          THEN RAdd(Pct(60), RMul(RDiv(RSub(prob, Pct(75)), Pct(15)), Pct(5)))
        ELSE IF RLt(prob, Pct(10))
          THEN RAdd(Pct(10), RMul(RDiv(prob, Pct(10)), Pct(10)))
        ELSE RAdd(Pct(20), RMul(RDiv(RSub(prob, Pct(10)), Pct(65)), Pct(40)))

\* the market check blending half and half instead of 60/40
MarketBlend_even(calibrated, implied_prob0) ==
    IF IsNone(implied_prob0) \/ IsNaN(implied_prob0)
      THEN calibrated
    ELSE LET implied_prob == RMax(Pct(5), RMin(Pct(95), implied_prob0))
             blended == RAdd(RMul(Pct(50), calibrated), RMul(Pct(50), implied_prob))
         IN  IF RLt(RAdd(implied_prob, Pct(20)), calibrated) THEN blended
             ELSE IF RLt(calibrated, RSub(implied_prob, Pct(20))) THEN blended
             ELSE calibrated

\* lines 397-409: the market sanity check (implied_prob given and not NaN)
MarketBlend(calibrated, implied_prob0) ==
    IF IsNone(implied_prob0) \/ IsNaN(implied_prob0)
      THEN calibrated
    ELSE LET implied_prob == RMax(Pct(5), RMin(Pct(95), implied_prob0))
             blended == RAdd(RMul(Pct(60), calibrated), RMul(Pct(40), implied_prob))
         IN  IF RLt(RAdd(implied_prob, Pct(20)), calibrated) THEN blended
             ELSE IF RLt(calibrated, RSub(implied_prob, Pct(20))) THEN blended
             ELSE calibrated

\* line 411: the final clamp
FinalClamp(calibrated) == RMax(Pct(10), RMin(Pct(75), calibrated))

\* the function with both safety clamps (lines 400 and 411) left out
calibrate_probability_unclamped(prob, implied_prob) ==
    LET calibrated == PiecewiseCalibrate(prob)
    IN  IF IsNone(implied_prob) \/ IsNaN(implied_prob) THEN calibrated
        ELSE IF RLt(Pct(20), RAbs(RSub(calibrated, implied_prob)))
          THEN RAdd(RMul(Pct(60), calibrated), RMul(Pct(40), implied_prob))
        ELSE calibrated

calibrate_probability(prob, implied_prob) ==
    FinalClamp(MarketBlend(PiecewiseCalibrate(prob), implied_prob))

RawProbs == {Num(i, ProbSteps) : i \in 0..ProbSteps}
\* None (argument omitted), NaN, the grid on [0,1] and two values outside it
ImpliedProbs ==
    {NoneV, NaN, Num(-1, 2), Num(3, 2)}
        \cup {Num(i, ImpliedSteps) : i \in 0..ImpliedSteps}

NoCall == [prob |-> NoneV, out |-> NoneV]
Unset == [k |-> "unset", n |-> 0, d |-> 1]

CalInit ==
    /\ cal_implied = Unset
    /\ cal_prev = NoCall
    /\ cal_last = NoCall

\* the caller settles the implied_prob argument it passes to its calls
UseImplied ==
    /\ cal_implied = Unset
    /\ cal_implied' \in ImpliedProbs
    /\ UNCHANGED <<cal_prev, cal_last, exceptCal>>

\* one call _calibrate_probability(prob, implied_prob = cal_implied); the
\* function keeps no state, so two calls are all a run needs to compare
Calibrate ==
    /\ cal_implied # Unset
    /\ IsNone(cal_prev.prob)
    /\ \E prob \in RawProbs :
           /\ cal_prev' = cal_last
           /\ cal_last' = [prob |-> prob,
                           out |-> calibrate_probability(prob, cal_implied)]
    /\ UNCHANGED <<cal_implied, exceptCal>>

CalNext == UseImplied \/ Calibrate

(***************************************************************************)
(* expected_value.py                                                       *)
(***************************************************************************)
\* a call that ended in an exception instead of a return value
Raised == [k |-> "raise", n |-> 0, d |-> 1]
IsRaised(v) == v.k = "raise"

\* An odds argument: a Python int, a str (its characters), float NaN or None.
IntOdds(v) == [t |-> "int", s |-> <<>>, v |-> v]
StrOdds(s) == [t |-> "str", s |-> s, v |-> 0]
NanOdds == [t |-> "nan", s |-> <<>>, v |-> 0]
NoneOdds == [t |-> "none", s |-> <<>>, v |-> 0]

Digits == <<"0", "1", "2", "3", "4", "5", "6", "7", "8", "9">>
IsDigit(c) == \E i \in 1..10 : Digits[i] = c
DigitValue(c) == (CHOOSE i \in 1..10 : Digits[i] = c) - 1

RECURSIVE LStrip(_)
LStrip(s) == IF s # <<>> /\ Head(s) = " " THEN LStrip(Tail(s)) ELSE s
RECURSIVE RStrip(_)
RStrip(s) ==
    IF s # <<>> /\ s[Len(s)] = " " THEN RStrip(SubSeq(s, 1, Len(s) - 1)) ELSE s

RECURSIVE DigitsValue(_, _)
DigitsValue(s, acc) ==
    IF s = <<>> THEN acc ELSE DigitsValue(Tail(s), 10 * acc + DigitValue(Head(s)))

\* Python int(str): surrounding blanks stripped, an optional sign, then one
\* or more decimal digits; anything else raises ValueError (ok = FALSE)
ParseInt(s0) ==
    LET s == RStrip(LStrip(s0))
        signed == s # <<>> /\ Head(s) \in {"+", "-"}
        body == IF signed THEN Tail(s) ELSE s
        ok == body # <<>> /\ \A i \in 1..Len(body) : IsDigit(body[i])
    IN  [ok |-> ok,
         v |-> IF ~ok THEN 0
               ELSE IF signed /\ Head(s) = "-" THEN -DigitsValue(body, 0)
               ELSE DigitsValue(body, 0)]

\* lines 28-33 with the abs() of the negative branch forgotten
OddsToDecimal_noabs(o) ==
    IF o > 0 THEN RAdd(Num(o, 100), One)
    ELSE IF o = 0 THEN Raised
    ELSE RAdd(Num(100, o), One)

\* lines 28-33: the conversion of an integer; 100 / abs(0) raises
OddsToDecimal(o) ==
    IF o > 0 THEN RAdd(Num(o, 100), One)
    ELSE IF o = 0 THEN Raised
    ELSE RAdd(Num(100, Abs(o)), One)

OFF == <<"O", "F", "F">>

\* lines 7-33
american_to_decimal(american_odds) ==
    IF american_odds.t = "str"
      THEN IF american_odds.s = OFF \/ american_odds.s = <<>> THEN NaN
           ELSE IF ~ParseInt(american_odds.s).ok THEN NaN
           ELSE OddsToDecimal(ParseInt(american_odds.s).v)
    ELSE IF american_odds.t = "none" THEN Raised   \* np.isnan(None): TypeError
    ELSE IF american_odds.t = "nan" THEN NaN
    ELSE OddsToDecimal(american_odds.v)

\* lines 71-84 with the discrepancy threshold 0.25 instead of 0.15
MarketAdjust_late(base_ev, probability, decimal_odds, implied_probability) ==
    LET prob_diff == RAbs(RSub(probability, implied_probability))
        market_ev == RSub(RMul(implied_probability, RSub(decimal_odds, One)),
                          RSub(One, implied_probability))
        market_weight == RMin(Pct(40), RMul(RSub(prob_diff, Pct(25)), Num(2, 1)))
    IN  IF RLt(Pct(25), prob_diff)
          THEN RAdd(RMul(RSub(One, market_weight), base_ev),
                    RMul(market_weight, market_ev))
        ELSE base_ev

\* lines 69-84: the market adjustment of the base expected value
MarketAdjust(base_ev, probability, decimal_odds, implied_probability) ==
    LET prob_diff == RAbs(RSub(probability, implied_probability))
        market_ev == RSub(RMul(implied_probability, RSub(decimal_odds, One)),
                          RSub(One, implied_probability))
        market_weight == RMin(Pct(40), RMul(RSub(prob_diff, Pct(15)), Num(2, 1)))
    IN  IF RLt(Pct(15), prob_diff)
          THEN RAdd(RMul(RSub(One, market_weight), base_ev),
                    RMul(market_weight, market_ev))
        ELSE base_ev

\* lines 35-84 (decimal_odds is never 0 here: 1.0 / 0 would raise)
calculate_expected_value(probability, decimal_odds, implied_probability0) ==
    IF IsNaN(probability) \/ IsNaN(decimal_odds) THEN NaN
    ELSE LET implied_probability ==
                 IF IsNone(implied_probability0) \/ IsNaN(implied_probability0)
                   THEN RDiv(One, decimal_odds)
                 ELSE implied_probability0
             base_ev == RSub(RMul(probability, RSub(decimal_odds, One)),
                             RMul(RSub(One, probability), One))
         IN  MarketAdjust(base_ev, probability, decimal_odds, implied_probability)

\* lines 86-106
calculate_expected_value_from_american(probability, american_odds, implied_probability0) ==
    LET decimal_odds == american_to_decimal(american_odds)
    IN  IF IsRaised(decimal_odds) THEN Raised
        ELSE IF IsNaN(decimal_odds) THEN NaN
        ELSE LET implied_probability ==
                     IF IsNone(implied_probability0) \/ IsNaN(implied_probability0)
                       THEN RDiv(One, decimal_odds)
                     ELSE implied_probability0
             IN  calculate_expected_value(probability, decimal_odds, implied_probability)

\* lines 108-136 with the floor at 0 of line 136 left out
calculate_kelly_criterion_decimalb(probability, decimal_odds) ==
    IF IsNaN(probability) \/ IsNaN(decimal_odds) THEN Zero
    ELSE LET b == decimal_odds
             p == probability
             q == RSub(One, p)
             kelly == RDiv(RSub(RMul(b, p), q), b)
         IN  RMax(Zero, kelly)

calculate_kelly_criterion_nofloor(probability, decimal_odds) ==
    IF IsNaN(probability) \/ IsNaN(decimal_odds) THEN Zero
    ELSE LET b == RSub(decimal_odds, One)
             p == probability
             q == RSub(One, p)
         IN  RDiv(RSub(RMul(b, p), q), b)

\* lines 108-136 (decimal_odds is never 1 here: the division by b would raise)
calculate_kelly_criterion(probability, decimal_odds) ==
    IF IsNaN(probability) \/ IsNaN(decimal_odds) THEN Zero
    ELSE LET b == RSub(decimal_odds, One)
             p == probability
             q == RSub(One, p)
             kelly == RDiv(RSub(RMul(b, p), q), b)
         IN  RMax(Zero, kelly)

\* The odds the harness passes: integers, strings, NaN and None.
IntegerOdds == {-200, -110, 100, 136, 150}
NumericStrings ==
    {<<"-", "1", "1", "0">>, <<"+", "1", "5", "0">>, <<" ", "1", "2", "0", " ">>}
NonNumericStrings ==
    {OFF, <<>>, <<"a", "b", "c">>, <<"1", ".", "5">>, <<"-">>, <<"1", "1", "O">>}
OddsInputs ==
    {IntOdds(o) : o \in IntegerOdds \cup {0}}
        \cup {StrOdds(s) : s \in NumericStrings \cup NonNumericStrings}
        \cup {NanOdds, NoneOdds}
\* the decimal odds of the integer odds, and NaN
DecimalOdds == {OddsToDecimal(o) : o \in IntegerOdds} \cup {NaN}
Probabilities == RawProbs \cup {NaN}
ImpliedInputs == {NoneV, NaN} \cup {Num(i, ImpliedSteps) : i \in 0..ImpliedSteps}

EvCall(fn, p, d, q, odds, ret) ==
    [fn |-> fn, p |-> p, d |-> d, q |-> q, odds |-> odds, ret |-> ret]

NoEvCall == EvCall("none", NoneV, NoneV, NoneV, NoneOdds, NoneV)

EvInit == ev_call = NoEvCall

\* the harness makes one call at a time: a call starts when none is pending
EvIdle == ev_call.fn = "none"

\* one call american_to_decimal(odds)
AmericanToDecimal ==
    /\ EvIdle
    /\ \E odds \in OddsInputs :
           ev_call' = EvCall("american_to_decimal", NoneV, NoneV, NoneV, odds,
                             american_to_decimal(odds))
    /\ UNCHANGED exceptEv

\* one call calculate_expected_value(p, d, q)
CalculateExpectedValue ==
    /\ EvIdle
    /\ \E p \in Probabilities, d \in DecimalOdds, q \in ImpliedInputs :
           ev_call' = EvCall("calculate_expected_value", p, d, q, NoneOdds,
                             calculate_expected_value(p, d, q))
    /\ UNCHANGED exceptEv

\* one call calculate_expected_value_from_american(p, odds, q)
CalculateExpectedValueFromAmerican ==
    /\ EvIdle
    /\ \E p \in Probabilities, odds \in OddsInputs, q \in ImpliedInputs :
           ev_call' = EvCall("calculate_expected_value_from_american", p, NoneV, q,
                             odds, calculate_expected_value_from_american(p, odds, q))
    /\ UNCHANGED exceptEv

\* one call calculate_kelly_criterion(p, d)
CalculateKellyCriterion ==
    /\ EvIdle
    /\ \E p \in Probabilities, d \in DecimalOdds :
           ev_call' = EvCall("calculate_kelly_criterion", p, d, NoneV, NoneOdds,
                             calculate_kelly_criterion(p, d))
    /\ UNCHANGED exceptEv

\* the caller has taken the returned value
EvReturn ==
    /\ ~EvIdle
    /\ ev_call' = NoEvCall
    /\ UNCHANGED exceptEv

EvNext ==
    \/ AmericanToDecimal
    \/ CalculateExpectedValue
    \/ CalculateExpectedValueFromAmerican
    \/ CalculateKellyCriterion
    \/ EvReturn

(***************************************************************************)
(* feature_engineering.py : data frames and create_target_variable         *)
(*                                                                         *)
(* A string is the sequence of its characters, so that the substring and   *)
(* lower-case tests of the column search are computed, not assumed.  A     *)
(* frame is its column names in column order and its rows, each row a      *)
(* function from the column names to values.                              *)
(***************************************************************************)
UpperCase == <<"A", "B", "C", "D", "E", "F", "G", "H", "I", "J", "K", "L", "M",
               "N", "O", "P", "Q", "R", "S", "T", "U", "V", "W", "X", "Y", "Z">>
LowerCase == <<"a", "b", "c", "d", "e", "f", "g", "h", "i", "j", "k", "l", "m",
               "n", "o", "p", "q", "r", "s", "t", "u", "v", "w", "x", "y", "z">>
\* str.lower()
LowerChar(c) ==
    IF \E i \in 1..26 : UpperCase[i] = c
      THEN LowerCase[CHOOSE i \in 1..26 : UpperCase[i] = c]
    ELSE c
Lower(s) == [i \in 1..Len(s) |-> LowerChar(s[i])]
\* the test "sub in s" of two strings
Contains(s, sub) ==
    \E i \in 0..(Len(s) - Len(sub)) : SubSeq(s, i + 1, i + Len(sub)) = sub
StartsWith(s, prefix) ==
    Len(s) >= Len(prefix) /\ SubSeq(s, 1, Len(prefix)) = prefix

prop_Points == <<"P", "o", "i", "n", "t", "s">>
prop_Rebounds == <<"R", "e", "b", "o", "u", "n", "d", "s">>
prop_Assists == <<"A", "s", "s", "i", "s", "t", "s">>
prop_Threes == <<"T", "h", "r", "e", "e", "s">>
prop_MadeThrees == <<"M", "a", "d", "e", " ", "T", "h", "r", "e", "e", "s">>
prop_Steals == <<"S", "t", "e", "a", "l", "s">>
prop_Blocks == <<"B", "l", "o", "c", "k", "s">>
prop_Turnovers == <<"T", "u", "r", "n", "o", "v", "e", "r", "s">>

\* lines 25-33: prop type -> the keywords of its raw stat column
prop_to_stat ==
    (prop_Points :> <<<<"p", "t", "s">>, <<"p", "o", "i", "n", "t", "s">>, <<"p", "o", "i", "n", "t">>>>)
    @@ (prop_Rebounds :> <<<<"r", "e", "b">>, <<"r", "e", "b", "o", "u", "n", "d", "s">>, <<"r", "e", "b", "o", "u", "n", "d">>>>)
    @@ (prop_Assists :> <<<<"a", "s", "t">>, <<"a", "s", "s", "i", "s", "t", "s">>, <<"a", "s", "s", "i", "s", "t">>>>)
    @@ (prop_Threes :> <<<<"3", "p">>, <<"t", "h", "r", "e", "e", "s">>, <<"t", "h", "r", "e", "e">>, <<"3", "p", "m">>, <<"3", "p", "_", "m", "a", "d", "e">>>>)
    @@ (prop_MadeThrees :> <<<<"3", "p">>, <<"t", "h", "r", "e", "e", "s">>, <<"t", "h", "r", "e", "e">>, <<"3", "p", "m">>, <<"3", "p", "_", "m", "a", "d", "e">>>>)
    @@ (prop_Steals :> <<<<"s", "t", "l">>, <<"s", "t", "e", "a", "l", "s">>, <<"s", "t", "e", "a", "l">>>>)
    @@ (prop_Blocks :> <<<<"b", "l", "k">>, <<"b", "l", "o", "c", "k", "s">>, <<"b", "l", "o", "c", "k">>>>)

\* lines 59-67: prop type -> the precomputed target column
prop_to_target ==
    (prop_Points :> <<"t", "a", "r", "g", "e", "t", "_", "p", "t", "s">>)
    @@ (prop_Rebounds :> <<"t", "a", "r", "g", "e", "t", "_", "r", "e", "b">>)
    @@ (prop_Assists :> <<"t", "a", "r", "g", "e", "t", "_", "a", "s", "t">>)
    @@ (prop_Threes :> <<"t", "a", "r", "g", "e", "t", "_", "s", "t", "l">>)
    @@ (prop_MadeThrees :> <<"t", "a", "r", "g", "e", "t", "_", "s", "t", "l">>)
    @@ (prop_Steals :> <<"t", "a", "r", "g", "e", "t", "_", "s", "t", "l">>)
    @@ (prop_Blocks :> <<"t", "a", "r", "g", "e", "t", "_", "b", "l", "k">>)

col_game_date == <<"g", "a", "m", "e", "_", "d", "a", "t", "e">>
col_pts == <<"p", "t", "s">>
col_PTS_upper == <<"P", "T", "S">>
col_points == <<"p", "o", "i", "n", "t", "s">>
col_reb == <<"r", "e", "b">>
col_is_home == <<"i", "s", "_", "h", "o", "m", "e">>
col_target_pts == <<"t", "a", "r", "g", "e", "t", "_", "p", "t", "s">>
col_target_reb == <<"t", "a", "r", "g", "e", "t", "_", "r", "e", "b">>
col_feat_roll_pts_5 == <<"f", "e", "a", "t", "_", "r", "o", "l", "l", "_", "p", "t", "s", "_", "5">>
kw_target == <<"t", "a", "r", "g", "e", "t">>
kw_feat == <<"f", "e", "a", "t">>

Over == <<"O", "v", "e", "r">>
Under == <<"U", "n", "d", "e", "r">>
Unknown == <<"U", "n", "k", "n", "o", "w", "n">>

NRows(df) == Len(df.rows)
HasColumn(df, col) == \E i \in 1..Len(df.cols) : df.cols[i] = col
\* df[col]: the values of one column, in row order
Column(df, col) == [i \in 1..NRows(df) |-> df.rows[i][col]]

\* line 35: prop_to_stat.get(prop_type, [prop_type.lower()])
StatKeywords(prop_type) ==
    IF prop_type \in DOMAIN prop_to_stat THEN prop_to_stat[prop_type]
    ELSE <<Lower(prop_type)>>

\* lines 40-41: is the column a candidate for the keyword
MatchesKeyword(col, keyword) ==
    /\ Contains(Lower(col), Lower(keyword))
    /\ ~Contains(Lower(col), kw_target)
    /\ ~Contains(Lower(col), kw_feat)

\* lines 36-44: the first column, in column order, matching the first keyword,
\* in keyword order, that has a match; found = FALSE when no keyword has one
FindStatColumn(cols, prop_type) ==
    LET kws == StatKeywords(prop_type)
        hit(k) == \E i \in 1..Len(cols) : MatchesKeyword(cols[i], kws[k])
    IN  IF \E k \in 1..Len(kws) : hit(k)
          THEN LET k == CHOOSE k1 \in 1..Len(kws) :
                            hit(k1) /\ \A k2 \in 1..(k1 - 1) : ~hit(k2)
                   i == CHOOSE i1 \in 1..Len(cols) :
                            /\ MatchesKeyword(cols[i1], kws[k])
                            /\ \A i2 \in 1..(i1 - 1) : ~MatchesKeyword(cols[i2], kws[k])
               IN  [found |-> TRUE, col |-> cols[i]]
        ELSE [found |-> FALSE, col |-> <<>>]

\* the comparisons of a column with a number: False on NaN
Gt(a, b) == IsNum(a) /\ IsNum(b) /\ RLt(b, a)
Lt(a, b) == IsNum(a) /\ IsNum(b) /\ RLt(a, b)
AsInt(bool) == IF bool THEN 1 ELSE 0

Labels(seq) == [k |-> "ok", labels |-> seq]
LabelError == [k |-> "raise", labels |-> <<>>]

\* lines 49-52 with the Over comparison taken as >= (a tie counts as a hit)
LabelRow_tiehit(actual, line, over_under) ==
    IF over_under = Over THEN AsInt(~Lt(actual, line) /\ IsNum(actual))
    ELSE AsInt(Lt(actual, line))

\* lines 49-52: the label of one row on the raw-stat path (side Over or Under)
LabelRow(actual, line, over_under) ==
    IF over_under = Over THEN AsInt(Gt(actual, line))
    ELSE AsInt(Lt(actual, line))

\* lines 8-78
create_target_variable(df, prop_type, line, over_under) ==
    LET stat == FindStatColumn(df.cols, prop_type)
    IN  IF stat.found /\ stat.col # <<>> /\ HasColumn(df, stat.col)
          THEN IF over_under \in {Over, Under}
                 THEN Labels([i \in 1..NRows(df) |->
                                 LabelRow(Column(df, stat.col)[i], line, over_under)])
               ELSE LabelError
        ELSE IF prop_type \in DOMAIN prop_to_target
                /\ HasColumn(df, prop_to_target[prop_type])
          THEN Labels([i \in 1..NRows(df) |->
                          AsInt(Gt(Column(df, prop_to_target[prop_type])[i], Zero))])
        ELSE LabelError

(***************************************************************************)
(* The game logs the model draws: a column layout and, per game, the value *)
(* of the pts column (stat), of the other raw stat columns (alt) and of    *)
(* the precomputed target columns (target).                                *)
(***************************************************************************)
GameKinds ==
    {[stat |-> Num(8, 1), alt |-> Num(12, 1), target |-> Zero],
     [stat |-> Num(10, 1), alt |-> Num(21, 2), target |-> One],
     [stat |-> Num(12, 1), alt |-> Num(8, 1), target |-> Num(2, 1)],
     [stat |-> NaN, alt |-> Num(10, 1), target |-> NaN]}

Layouts ==
    {<<col_game_date, col_pts, col_feat_roll_pts_5, col_target_pts>>,
     <<col_game_date, col_points, col_pts, col_target_pts>>,
     <<col_game_date, col_PTS_upper, col_is_home>>,
     <<col_game_date, col_feat_roll_pts_5, col_target_pts>>,
     <<col_game_date, col_feat_roll_pts_5, col_target_reb>>}

SeqRange(s) == {s[i] : i \in 1..Len(s)}

CellValue(col, i, game) ==
    IF col \in {col_pts, col_PTS_upper} THEN game.stat
    ELSE IF col \in {col_target_pts, col_target_reb} THEN game.target
    ELSE IF col = col_game_date THEN Num(i, 1)
    ELSE IF col = col_is_home THEN Num(i % 2, 1)
    ELSE game.alt

Frame(layout, games) ==
    [cols |-> layout,
     rows |-> [i \in 1..Len(games) |->
                  [col \in SeqRange(layout) |-> CellValue(col, i, games[i])]]]

\* the orders the rows of a log come in: by date, latest first (as the
\* store returns them), or by date with the two halves exchanged
RowOrders == {"asc", "desc", "cut"}
DateAt(order, n, i) ==
    IF order = "asc" THEN i
    ELSE IF order = "desc" THEN n + 1 - i
    ELSE ((i + (n \div 2) - 1) % n) + 1

\* the log whose i-th row is the game dated DateAt(order, n, i)
OrderedFrame(layout, games, order) ==
    [cols |-> layout,
     rows |-> [i \in 1..Len(games) |->
                  [col \in SeqRange(layout) |->
                      CellValue(col, DateAt(order, Len(games), i),
                                games[DateAt(order, Len(games), i)])]]]

GameSeqs(maxLen) == UNION {[1..n -> GameKinds] : n \in 0..maxLen}

Lines == {Num(10, 1), Num(21, 2)}
Sides == {Over, Under, Unknown}
PropTypes == {prop_Points, prop_Rebounds, prop_Turnovers}

TgtCall(fn, df, prop_type, line, over_under, ret) ==
    [fn |-> fn, df |-> df, prop_type |-> prop_type, line |-> line,
     over_under |-> over_under, ret |-> ret]
NoFrame == [cols |-> <<>>, rows |-> <<>>]
NoTgtCall == TgtCall("none", NoFrame, <<>>, NoneV, <<>>, LabelError)

TgtInit == tgt_call = NoTgtCall

TgtIdle == tgt_call.fn = "none"

TargetLogs == GameSeqs(MaxRows)

\* one call create_target_variable(df, prop_type, line, over_under)
CreateTargetVariable ==
    /\ TgtIdle
    /\ \E layout \in Layouts, games \in TargetLogs, prop_type \in PropTypes,
          line \in Lines, over_under \in Sides :
           LET df == Frame(layout, games)
           IN  tgt_call' = TgtCall("create_target_variable", df, prop_type, line,
                                   over_under,
                                   create_target_variable(df, prop_type, line, over_under))
    /\ UNCHANGED exceptTgt

\* the caller has taken the returned labels
TgtReturn ==
    /\ ~TgtIdle
    /\ tgt_call' = NoTgtCall
    /\ UNCHANGED exceptTgt

TgtNext == CreateTargetVariable \/ TgtReturn

(***************************************************************************)
(* feature_engineering.py : create_training_data                           *)
(***************************************************************************)
\* lines 108-109
exclude_cols ==
    {<<"p", "l", "a", "y", "e", "r", "_", "f", "u", "l", "l", "_", "n", "a", "m", "e">>,
     <<"p", "l", "a", "y", "e", "r", "_", "n", "a", "m", "e">>,
     <<"g", "a", "m", "e", "_", "i", "d">>,
     col_game_date,
     col_target_pts, col_target_reb,
     <<"t", "a", "r", "g", "e", "t", "_", "a", "s", "t">>,
     <<"t", "a", "r", "g", "e", "t", "_", "b", "l", "k">>,
     <<"t", "a", "r", "g", "e", "t", "_", "s", "t", "l">>}

\* the dtype test of line 117: every cell of the column is a number or NaN
IsNumericColumn(df, col) ==
    \A i \in 1..NRows(df) : IsNum(df.rows[i][col]) \/ IsNaN(df.rows[i][col])

\* lines 111-119: the columns kept as features, in column order
FeatureColumns(df) ==
    SelectSeq(df.cols,
              LAMBDA col : /\ col \notin exclude_cols
                           /\ \/ StartsWith(col, <<"f", "e", "a", "t", "_">>)
                              \/ IsNumericColumn(df, col))

\* lines 312-327: the hit rate at similar lines over the games before row i
HitRateSimilarLine(stats, y, line, i) ==
    LET similar == {j \in 1..(i - 1) :
                        IsNum(stats[j]) /\ RLe(RAbs(RSub(stats[j], line)), Num(3, 2))}
        Hits == Cardinality({j \in similar : y[j] = 1})
    IN  IF i > 1 /\ similar # {} THEN Num(Hits, Cardinality(similar)) ELSE Num(1, 2)

\* the ValueError of create_target_variable (lines 54, 77) or of
\* prepare_features_for_prediction (line 122) passing through
TrainingError(msg) == [k |-> "raise", tuple |-> <<>>, msg |-> msg]

\* lines 255-354.  X is the feature frame as far as the callers modelled here
\* read it: its column names, its number of rows (one per game: the fillna(0)
\* of line 251 leaves no row for the NaN filter of lines 335-337 to drop) and
\* the historical_hit_rate_similar_line column; a sample weight
\* exp(-0.05 * age) / max is given by its age, the number of later games.
\* The function returns the 3-tuple (X, y, sample_weights).
create_training_data(df, prop_type, line, over_under) ==
    LET y == create_target_variable(df, prop_type, line, over_under)
        feature_cols == FeatureColumns(df)
        stat == FindStatColumn(df.cols, prop_type)
        n == NRows(df)
    IN  IF y.k = "raise" THEN TrainingError("no labels")
        ELSE IF Len(feature_cols) = 0 THEN TrainingError("No feature columns found")
        ELSE LET hit_rate ==
                     IF stat.found
                       THEN [i \in 1..n |->
                                HitRateSimilarLine(Column(df, stat.col), y.labels, line, i)]
                     ELSE <<>>
                 X == [cols |-> feature_cols, n |-> n, hit_rate |-> hit_rate]
                 sample_weights == [i \in 1..n |-> n - i]
             IN  [k |-> "ok", tuple |-> <<X, y.labels, sample_weights>>, msg |-> ""]

(***************************************************************************)
(* main_workflow.py : process_prop                                         *)
(***************************************************************************)
\* What process_prop's collaborators answer.  The historical store returns
\* a frame or raises; PropPredictor.train followed by
\* predict_probability_with_ci returns a triple (probability, lower, upper)
\* or raises.
StoreRaised == [k |-> "raise", df |-> NoFrame]
StoreFrame(df) == [k |-> "ok", df |-> df]
ClfRaised == [k |-> "raise", prob |-> NoneV, lower |-> NoneV, upper |-> NoneV]
ClfTriple(p, lo, hi) == [k |-> "ok", prob |-> p, lower |-> lo, upper |-> hi]

NoResult ==
    [k |-> "none", Decimal_Odds |-> NoneV, Implied_Probability |-> NoneV,
     Model_Probability |-> NoneV, Probability_CI_Lower |-> NoneV,
     Probability_CI_Upper |-> NoneV, Edge |-> NoneV, Expected_Value |-> NoneV,
     EV_CI_Lower |-> NoneV, EV_CI_Upper |-> NoneV, Kelly_Fraction |-> NoneV,
     Confidence_Score |-> NoneV, Historical_Games |-> 0, Training_Samples |-> 0]

\* lines 75-78
ImpliedProbability(decimal_odds) ==
    IF IsNaN(decimal_odds) THEN NaN ELSE RDiv(One, decimal_odds)

\* (1 - blend_weight) * x + blend_weight * toward; a NaN bound is left alone
BlendToward(blend_weight, x, toward) ==
    IF IsNaN(x) THEN x
    ELSE RAdd(RMul(RSub(One, blend_weight), x), RMul(blend_weight, toward))

\* lines 87-97, for the clamped implied probability and prob_diff
BlendTriple(clf, implied_prob, prob_diff, blend_weight) ==
    IF RLt(Pct(25), prob_diff)
      THEN [prob |-> BlendToward(blend_weight, clf.prob, implied_prob),
            lower |-> BlendToward(blend_weight, clf.lower,
                                  RMax(Pct(5), RSub(implied_prob, Pct(10)))),
            upper |-> BlendToward(blend_weight, clf.upper,
                                  RMin(Pct(95), RAdd(implied_prob, Pct(10)))),
            implied |-> implied_prob]
    ELSE [prob |-> clf.prob, lower |-> clf.lower, upper |-> clf.upper,
          implied |-> implied_prob]

BlendWithClamped(clf, implied_prob) ==
    BlendTriple(clf, implied_prob, RAbs(RSub(clf.prob, implied_prob)),
                RMin(Pct(50), RMul(RAbs(RSub(clf.prob, implied_prob)), Num(3, 2))))

\* lines 80-97: the blend of the classifier's triple with the market
PostCalibration(clf, implied_prob) ==
    IF IsNaN(implied_prob) \/ IsNaN(clf.prob)
      THEN [prob |-> clf.prob, lower |-> clf.lower, upper |-> clf.upper,
            implied |-> implied_prob]
    ELSE BlendWithClamped(clf, RMax(Pct(5), RMin(Pct(95), implied_prob)))

\* max(lo, min(hi, x)) as Python evaluates it: a NaN x compares False with
\* everything, so min(hi, NaN) is hi
Clamp(lo, hi, x) == IF IsNaN(x) THEN RMax(lo, hi) ELSE RMax(lo, RMin(hi, x))
\* lines 101-104: a bound is clamped unless it is NaN
ClampBound(lo, hi, x) == IF IsNaN(x) THEN x ELSE Clamp(lo, hi, x)

\* lines 121-124
ConfidenceScore(n_train, prob_ci_lower, prob_ci_upper) ==
    LET ci_width == IF IsNaN(prob_ci_upper) \/ IsNaN(prob_ci_lower) THEN One
                    ELSE RSub(prob_ci_upper, prob_ci_lower)
    IN  RAdd(RMul(RMin(One, Num(n_train, 50)), Pct(60)),
             RMul(RMax(Zero, RSub(One, ci_width)), Pct(40)))

\* lines 110-111
BoundEV(bound, odds, implied_prob) ==
    IF IsNaN(bound) THEN NaN
    ELSE calculate_expected_value_from_american(bound, odds, implied_prob)

\* lines 106-145: the record of the clamped probabilities
ResultRecord(odds, decimal_odds, implied_prob, probability, prob_ci_lower, prob_ci_upper, n_hist, n_train) ==
    [k |-> "record", Decimal_Odds |-> decimal_odds,
     Implied_Probability |-> implied_prob, Model_Probability |-> probability,
     Probability_CI_Lower |-> prob_ci_lower,
     Probability_CI_Upper |-> prob_ci_upper,
     Edge |-> IF IsNaN(implied_prob) THEN NaN ELSE RSub(probability, implied_prob),
     Expected_Value |->
         calculate_expected_value_from_american(probability, odds, implied_prob),
     EV_CI_Lower |-> BoundEV(prob_ci_lower, odds, implied_prob),
     EV_CI_Upper |-> BoundEV(prob_ci_upper, odds, implied_prob),
     Kelly_Fraction |-> IF IsNaN(decimal_odds) THEN Zero
                        ELSE calculate_kelly_criterion(probability, decimal_odds),
     Confidence_Score |-> ConfidenceScore(n_train, prob_ci_lower, prob_ci_upper),
     Historical_Games |-> n_hist, Training_Samples |-> n_train]

\* lines 99-104: the final clamps of the blended triple
ClampedRecord_upper70(odds, decimal_odds, blended, n_hist, n_train) ==
    ResultRecord(odds, decimal_odds, blended.implied,
                 Clamp(Pct(10), Pct(75), blended.prob),
                 ClampBound(Pct(5), Pct(70), blended.lower),
                 ClampBound(Pct(15), Pct(70), blended.upper), n_hist, n_train)

ClampedRecord(odds, decimal_odds, blended, n_hist, n_train) ==
    ResultRecord(odds, decimal_odds, blended.implied,
                 Clamp(Pct(10), Pct(75), blended.prob),
                 ClampBound(Pct(5), Pct(70), blended.lower),
                 ClampBound(Pct(15), Pct(80), blended.upper), n_hist, n_train)

RecordForOdds(odds, decimal_odds, n_hist, n_train, clf) ==
    IF IsRaised(decimal_odds) THEN NoResult
    ELSE ClampedRecord(odds, decimal_odds,
                       PostCalibration(clf, ImpliedProbability(decimal_odds)),
                       n_hist, n_train)

\* lines 73-150: from the classifier's triple to the result record; an
\* exception on the way (american_to_decimal raising) is caught by line 152
\* and gives None
BuildRecord(odds, n_hist, n_train, clf) ==
    RecordForOdds(odds, american_to_decimal(odds), n_hist, n_train, clf)

\* line 57: "X, y = create_training_data(...)" binds a tuple to two names and
\* raises ValueError unless the tuple has exactly two elements
UnpackTwo(tuple) == IF Len(tuple) = 2 THEN [k |-> "ok", X |-> tuple[1], y |-> tuple[2]]
                    ELSE [k |-> "raise", X |-> <<>>, y |-> <<>>]

\* What the call did with a PropPredictor (lines 64-71): whether it
\* constructed one, and how many times it fitted it and asked it to predict
PredictorUse(constructed, fits, predictions) ==
    [constructed |-> constructed, fits |-> fits, predictions |-> predictions]
NoPredictorUse == PredictorUse(FALSE, 0, 0)

\* What a call leaves behind: the returned record or None, the line it
\* printed on the way out (lines 53, 60, 147, 153; nothing on lines 39 and
\* 43), and its use of a PropPredictor
OutcomeWith(result, log, predictor) ==
    [result |-> result, log |-> log, predictor |-> predictor, recent |-> NoneV]
\* line 150, reached past lines 64-71
Outcome(result, log) == OutcomeWith(result, log, PredictorUse(TRUE, 1, 1))
\* the returns of lines 39, 43, 54 and 61, before any PropPredictor exists
Skipped(log) == OutcomeWith(NoResult, log, NoPredictorUse)

\* line 70: historical_df.iloc[[-1]], the last row of the history, by its date
RecentGame(df) ==
    IF HasColumn(df, col_game_date) THEN df.rows[NRows(df)][col_game_date] ELSE NoneV

\* lines 70-71: the outcome of a call that predicted from the row of a game
PredictedFrom(outcome, game) == [outcome EXCEPT !.recent = game]

\* the exception passing through process_prop to its caller
Propagated == [NoResult EXCEPT !.k = "raise"]
Caught_propagated(msg, predictor) == OutcomeWith(Propagated, msg, predictor)

\* lines 152-154: any exception of lines 48-150 is printed and None returned
Caught(msg, predictor) ==
    OutcomeWith(NoResult, "Error processing prop: " \o msg, predictor)

\* lines 19-154
process_prop(row, filter_overs_only, min_games, store, clf) ==
    IF filter_overs_only /\ row.over_under # Over THEN Skipped("")
    ELSE IF row.over_under = Unknown THEN Skipped("")
    ELSE IF store.k = "raise" THEN Caught("store", NoPredictorUse)
    ELSE IF NRows(store.df) < min_games THEN Skipped("Insufficient data")
    ELSE LET data == create_training_data(store.df, row.prop_type, row.line,
                                          row.over_under)
         IN  IF data.k = "raise" THEN Caught(data.msg, NoPredictorUse)
             ELSE LET bound == UnpackTwo(data.tuple)
                  IN  IF bound.k = "raise"
                        THEN Caught("too many values to unpack (expected 2)",
                                    NoPredictorUse)
                      ELSE IF bound.X.n = 0 THEN Skipped("No valid training data")
                      ELSE IF clf.k = "raise"
                        THEN Caught("classifier", PredictorUse(TRUE, 1, 0))
                      ELSE LET record == BuildRecord(row.odds, NRows(store.df),
                                                     bound.X.n, clf)
                           IN  IF record.k = "none"
                                 THEN PredictedFrom(Caught("division by zero",
                                                           PredictorUse(TRUE, 1, 1)),
                                                    RecentGame(store.df))
                               ELSE PredictedFrom(Outcome(record, "Probability"),
                                                  RecentGame(store.df))

\* The propositions, histories and classifier answers the model draws.  The
\* store returns a history latest game first (database.py:53-54).
PropOdds ==
    {IntOdds(-110), IntOdds(150), IntOdds(0), StrOdds(OFF), StrOdds(<<"a", "b", "c">>)}
PropRows ==
    [prop_type : {prop_Points}, line : {Num(10, 1)}, over_under : Sides, odds : PropOdds]
\* min_games: the default 10 and a caller's 2
MinGames == {2, 10}
HistoryLayouts ==
    {<<col_game_date, col_pts, col_feat_roll_pts_5, col_target_pts>>,
     <<col_game_date, col_feat_roll_pts_5, col_target_pts>>,
     <<col_game_date, col_feat_roll_pts_5, col_target_reb>>}
Histories ==
    {StoreRaised}
        \cup {StoreFrame(OrderedFrame(layout, games, "desc")) :
                layout \in HistoryLayouts, games \in GameSeqs(MaxGames)}
ClassifierAnswers ==
    {ClfRaised, ClfTriple(Pct(50), Pct(40), Pct(60)), ClfTriple(One, Pct(80), One)}

PpCall(fn, row, filter_overs_only, min_games, store, outcome) ==
    [fn |-> fn, row |-> row, filter_overs_only |-> filter_overs_only,
     min_games |-> min_games, store |-> store, result |-> outcome.result,
     log |-> outcome.log, predictor |-> outcome.predictor]
NoRow == [prop_type |-> <<>>, line |-> NoneV, over_under |-> <<>>, odds |-> NoneOdds]
NoPpCall == PpCall("none", NoRow, FALSE, 0, StoreRaised, Skipped(""))

PpInit == pp_call = NoPpCall

PpIdle == pp_call.fn = "none"

\* one call process_prop(row, filter_overs_only, min_games)
ProcessProp ==
    /\ PpIdle
    /\ \E row \in PropRows, filter_overs_only \in BOOLEAN, min_games \in MinGames,
          store \in Histories, clf \in ClassifierAnswers :
           pp_call' = PpCall("process_prop", row, filter_overs_only, min_games, store,
                             process_prop(row, filter_overs_only, min_games, store, clf))
    /\ UNCHANGED exceptPp

\* the caller has taken the result
PpReturn ==
    /\ ~PpIdle
    /\ pp_call' = NoPpCall
    /\ UNCHANGED exceptPp

PpNext == ProcessProp \/ PpReturn

(***************************************************************************)
(* main_workflow.py : process_prop, lines 73-150 on their own: from the    *)
(* triple predict_probability_with_ci returned and the odds of the row to  *)
(* the result record.                                                      *)
(***************************************************************************)
\* the odds of the rows: favourites and underdogs, long odds whose implied
\* probability is clamped, a string that is no number, and 0
RecordOdds ==
    {IntOdds(o) : o \in {-1900, -400, -110, 150, 1900, 0}} \cup {StrOdds(OFF)}

\* the triples (probability, lower, upper) with lower <= probability <= upper
OrderedTriples ==
    {ClfTriple(t[1], t[2], t[3]) :
        t \in {u \in RawProbs \X RawProbs \X RawProbs : RLe(u[2], u[1]) /\ RLe(u[1], u[3])}}

RecCall(fn, odds, clf, ret) == [fn |-> fn, odds |-> odds, clf |-> clf, ret |-> ret]
NoRecCall == RecCall("none", NoneOdds, ClfRaised, NoResult)

RecInit == rec_call = NoRecCall

\* lines 73-150 for one triple and one row's odds
BuildResultRecord ==
    /\ rec_call.fn = "none"
    /\ \E odds \in RecordOdds, clf \in OrderedTriples, n \in {10} :
           rec_call' = RecCall("record", odds, clf, BuildRecord(odds, n, n, clf))
    /\ UNCHANGED exceptRec

\* the record has been returned
RecReturn ==
    /\ rec_call.fn # "none"
    /\ rec_call' = NoRecCall
    /\ UNCHANGED exceptRec

RecNext == BuildResultRecord \/ RecReturn

(***************************************************************************)
(* modeling.py : PropPredictor (__init__, train, predict_probability,      *)
(* predict_probability_with_ci)                                            *)
(*                                                                         *)
(* The fitted sklearn objects are kept by what the methods ask of them:    *)
(* whether an attribute is None, a fresh (unfitted) object or a fitted     *)
(* one.  What a fitted ensemble answers for a feature row is an input of   *)
(* the predicting call.                                                    *)
(***************************************************************************)
random_forest == "random_forest"
gradient_boosting == "gradient_boosting"
ModelTypes == {random_forest, gradient_boosting, "other"}

\* lines 18-35: the attributes after __init__; baseline_prob and
\* training_samples are attributes the constructor does not create
NewPredictor(model_type) ==
    [model_type |-> model_type, model |-> "None", scaler |-> "unfitted",
     variance_selector |-> "None", feature_selector |-> "None",
     is_trained |-> FALSE, input_feature_names |-> "None",
     feature_names |-> "None", baseline_prob |-> Unset, training_samples |-> Unset]

\* hasattr(self, 'baseline_prob')
HasBaseline(self) == self.baseline_prob # Unset

RECURSIVE SumSeq(_)
SumSeq(s) == IF s = <<>> THEN 0 ELSE Head(s) + SumSeq(Tail(s))

CountOf(y, cls) == Cardinality({i \in 1..Len(y) : y[i] = cls})

\* lines 56-59: more than two distinct values are made binary by value > 0
Binarize(y) ==
    IF Cardinality(SeqRange(y)) > 2 THEN [i \in 1..Len(y) |-> IF y[i] > 0 THEN 1 ELSE 0]
    ELSE y

\* lines 69-70
CanStratify(y) ==
    /\ \A cls \in SeqRange(y) : CountOf(y, cls) >= 2
    /\ Cardinality(SeqRange(y)) = 2

\* train_test_split(test_size=0.2): the held-out part has ceil(0.2 * n) rows
TestRows(n) == (n + 4) \div 5
TrainRows(n) == n - TestRows(n)

\* lines 73-81: train_test_split raises ValueError when a stratified part
\* would have fewer rows than there are classes
SplitRaises(y) ==
    CanStratify(y) /\ (TestRows(Len(y)) < 2 \/ TrainRows(Len(y)) < 2)

\* What a call of train leaves: the instance, whether it raised, and the
\* steps after the constant-label check that ran
TrainOutcome(self, raised, steps) == [self |-> self, raised |-> raised, steps |-> steps]

\* lines 83-158, after the split.  The split's draw decides what the filters
\* see: variance is "raises" when VarianceThreshold finds no column above its
\* threshold (line 86, after line 85 stored the new selector), select is
\* whether SelectKBest is fitted and kept (lines 96-116)
FitPipeline(self, n, variance, select) ==
    IF variance = "raises"
      THEN TrainOutcome([self EXCEPT !.variance_selector = "unfitted"], TRUE,
                   <<"split", "variance">>)
    ELSE LET filtered == [self EXCEPT !.variance_selector = "fitted",
                                      !.feature_selector =
                                          IF select THEN "fitted" ELSE "None",
                                      !.feature_names = "set",
                                      !.scaler = "fitted"]
         IN  IF self.model_type \notin {random_forest, gradient_boosting}
               THEN TrainOutcome(filtered, TRUE, <<"split", "variance", "select", "scale">>)
             ELSE TrainOutcome([filtered EXCEPT !.model = "fitted",
                                           !.training_samples = Num(TrainRows(n), 1),
                                           !.is_trained = TRUE],
                          FALSE, <<"split", "variance", "select", "scale", "fit">>)

\* the check of line 61 recognising only the all-zero series
ConstantLabels_zerosonly(y) == SumSeq(y) = 0

\* lines 61-66: all outcomes are the same
ConstantLabels(y) == SumSeq(y) = 0 \/ SumSeq(y) = Len(y)

TrainBinary(self, y, variance, select) ==
    IF ConstantLabels(y)
      THEN TrainOutcome([self EXCEPT !.is_trained = FALSE,
                                !.baseline_prob = Num(SumSeq(y), Len(y))],
                   FALSE, <<>>)
    ELSE IF SplitRaises(y) THEN TrainOutcome(self, TRUE, <<"split">>)
    ELSE FitPipeline(self, Len(y), variance, select)

\* lines 37-180: train(X, y) with X holding one row per label
train(self, y, variance, select) ==
    IF Len(y) = 0 THEN TrainOutcome(self, TRUE, <<>>)
    ELSE TrainBinary([self EXCEPT !.input_feature_names = "set"], Binarize(y),
                     variance, select)

\* lines 199-232 and 260-288: the fitted transforms are replayed; a selector
\* stored by a train call that raised before fitting it cannot transform
CanTransform(self) == self.variance_selector # "unfitted" /\ self.model = "fitted"

\* lines 192-197 and 251-256
BaselineProbability(self) ==
    IF HasBaseline(self) THEN self.baseline_prob ELSE Pct(50)

\* lines 182-238; proba is the ensemble's answer predict_proba(X)[0, 1]
predict_probability(self, proba) ==
    IF ~self.is_trained THEN BaselineProbability(self)
    ELSE IF ~CanTransform(self) THEN Raised
    ELSE calibrate_probability(proba, NoneV)

\* line 258 with the band left unclipped
UntrainedBand_unclipped(prob) ==
    ClfTriple(prob, RSub(prob, Pct(20)), RAdd(prob, Pct(20)))

\* line 258
UntrainedBand(prob) ==
    ClfTriple(prob, RMax(Zero, RSub(prob, Pct(20))), RMin(One, RAdd(prob, Pct(20))))

\* lines 240-355; proba is the ensemble's (mean) answer and spread is
\* z_score times the trees' standard deviation (line 310) or the standard
\* error (line 348)
predict_probability_with_ci(self, proba, spread) ==
    IF ~self.is_trained THEN UntrainedBand(BaselineProbability(self))
    ELSE IF ~CanTransform(self) THEN ClfRaised
    ELSE ClfTriple(calibrate_probability(proba, NoneV),
                   calibrate_probability(RMax(Zero, RSub(proba, spread)), NoneV),
                   calibrate_probability(RMin(One, RAdd(proba, spread)), NoneV))

\* The label series, ensemble answers and spreads the model draws.
LabelSeries == UNION {[1..n -> {0, 1}] : n \in 0..MaxLabels}
EnsembleAnswers == {Zero, Pct(25), Pct(50), Pct(80), One}
Spreads == {Zero, Pct(10), Pct(30)}

NoAnswer == [k |-> "none", prob |-> NoneV, lower |-> NoneV, upper |-> NoneV]
Answer(p) == [k |-> IF IsRaised(p) THEN "raise" ELSE "ok", prob |-> p,
              lower |-> NoneV, upper |-> NoneV]
Done(raised) == [k |-> IF raised THEN "raise" ELSE "ok", prob |-> NoneV,
                 lower |-> NoneV, upper |-> NoneV]

PredCall(fn, y, before, ret, steps) ==
    [fn |-> fn, y |-> y, before |-> before, ret |-> ret, steps |-> steps]
\* no instance has been constructed yet
NoPredictor == [NewPredictor("") EXCEPT !.model = "no instance"]
NoPredCall == PredCall("none", <<>>, NoPredictor, NoAnswer, <<>>)

PredInit ==
    /\ pred = NoPredictor
    /\ pred_call = NoPredCall

PredIdle == pred # NoPredictor /\ pred_call.fn = "none"

\* PropPredictor(model_type)
Construct ==
    /\ pred = NoPredictor
    /\ \E model_type \in ModelTypes : pred' = NewPredictor(model_type)
    /\ UNCHANGED <<pred_call, exceptPred>>

\* one call self.train(X, y)
Train ==
    /\ PredIdle
    /\ \E y \in LabelSeries, variance \in {"fits", "raises"}, select \in BOOLEAN :
           LET done == train(pred, y, variance, select)
           IN  /\ pred' = done.self
               /\ pred_call' = PredCall("train", y, pred, Done(done.raised), done.steps)
    /\ UNCHANGED exceptPred

\* one call self.predict_probability(X)
PredictProbability ==
    /\ PredIdle
    /\ \E proba \in EnsembleAnswers :
           pred_call' = PredCall("predict_probability", <<>>, pred,
                                 Answer(predict_probability(pred, proba)), <<>>)
    /\ UNCHANGED <<pred, exceptPred>>

\* one call self.predict_probability_with_ci(X)
PredictProbabilityWithCI ==
    /\ PredIdle
    /\ \E proba \in EnsembleAnswers, spread \in Spreads :
           pred_call' = PredCall("predict_probability_with_ci", <<>>, pred,
                                 predict_probability_with_ci(pred, proba, spread), <<>>)
    /\ UNCHANGED <<pred, exceptPred>>

\* the caller has taken the result
PredReturn ==
    /\ pred_call.fn # "none"
    /\ pred_call' = NoPredCall
    /\ UNCHANGED <<pred, exceptPred>>

PredNext == Construct \/ Train \/ PredictProbability \/ PredictProbabilityWithCI \/ PredReturn

(***************************************************************************)
(* feature_engineering.py : prepare_features_for_prediction                *)
(*                                                                         *)
(* A feature matrix is [cols, rows]: the column names in order and, per    *)
(* row, the value of each column.                                          *)
(***************************************************************************)
col_line == <<"l", "i", "n", "e">>
col_line_vs_recent_5 == <<"l", "i", "n", "e", "_", "v", "s", "_", "r", "e", "c", "e", "n", "t", "_", "5">>
col_line_vs_recent_5_pct == <<"l", "i", "n", "e", "_", "v", "s", "_", "r", "e", "c", "e", "n", "t", "_", "5", "_", "p", "c", "t">>
col_line_vs_recent_10 == <<"l", "i", "n", "e", "_", "v", "s", "_", "r", "e", "c", "e", "n", "t", "_", "1", "0">>
col_line_vs_recent_10_pct == <<"l", "i", "n", "e", "_", "v", "s", "_", "r", "e", "c", "e", "n", "t", "_", "1", "0", "_", "p", "c", "t">>
col_line_vs_season_avg == <<"l", "i", "n", "e", "_", "v", "s", "_", "s", "e", "a", "s", "o", "n", "_", "a", "v", "g">>
col_line_vs_season_avg_pct == <<"l", "i", "n", "e", "_", "v", "s", "_", "s", "e", "a", "s", "o", "n", "_", "a", "v", "g", "_", "p", "c", "t">>
col_line_difficulty == <<"l", "i", "n", "e", "_", "d", "i", "f", "f", "i", "c", "u", "l", "t", "y">>
col_recent_similar_line_count == <<"r", "e", "c", "e", "n", "t", "_", "s", "i", "m", "i", "l", "a", "r", "_", "l", "i", "n", "e", "_", "c", "o", "u", "n", "t">>
col_trend_5_games == <<"t", "r", "e", "n", "d", "_", "5", "_", "g", "a", "m", "e", "s">>
col_momentum == <<"m", "o", "m", "e", "n", "t", "u", "m">>
col_volatility == <<"v", "o", "l", "a", "t", "i", "l", "i", "t", "y">>
col_consistency_score == <<"c", "o", "n", "s", "i", "s", "t", "e", "n", "c", "y", "_", "s", "c", "o", "r", "e">>
col_recent_vs_season_5 == <<"r", "e", "c", "e", "n", "t", "_", "v", "s", "_", "s", "e", "a", "s", "o", "n", "_", "5">>
col_recent_vs_season_10 == <<"r", "e", "c", "e", "n", "t", "_", "v", "s", "_", "s", "e", "a", "s", "o", "n", "_", "1", "0">>
col_rolling_5_x_line == <<"r", "o", "l", "l", "i", "n", "g", "_", "5", "_", "x", "_", "l", "i", "n", "e">>
col_line_div_rolling_5 == <<"l", "i", "n", "e", "_", "d", "i", "v", "_", "r", "o", "l", "l", "i", "n", "g", "_", "5">>
col_volatility_x_line == <<"v", "o", "l", "a", "t", "i", "l", "i", "t", "y", "_", "x", "_", "l", "i", "n", "e">>

\* lines 99-100 without the sort
SortByDate_unsorted(df) == df

\* lines 99-100: sort_values(by='game_date') when the log has the column;
\* the row placed j-th is the one with j - 1 earlier dates
SortByDate(df) ==
    IF ~HasColumn(df, col_game_date) THEN df
    ELSE LET date(i) == df.rows[i][col_game_date]
             rank(i) == Cardinality({j \in 1..NRows(df) : RLt(date(j), date(i))}) + 1
         IN  [cols |-> df.cols,
              rows |-> [j \in 1..NRows(df) |->
                           df.rows[CHOOSE i \in 1..NRows(df) : rank(i) = j]]]

\* stats[-k:]: the last k values (all of them when there are fewer)
LastOf(s, k) == IF Len(s) <= k THEN s ELSE SubSeq(s, Len(s) - k + 1, Len(s))

HasNaN(s) == \E i \in 1..Len(s) : IsNaN(s[i])

RECURSIVE RSum(_)
RSum(s) == IF s = <<>> THEN Zero ELSE RAdd(Head(s), RSum(Tail(s)))

\* np.mean: NaN when a value is NaN
Mean(s) == IF HasNaN(s) \/ Len(s) = 0 THEN NaN ELSE RDiv(RSum(s), Num(Len(s), 1))

\* the square root of a rational that is the square of a rational
RSqrt(v) ==
    LET rn == CHOOSE i \in 0..v.n : i * i = v.n
        rd == CHOOSE i \in 1..v.d : i * i = v.d
    IN  Num(rn, rd)

\* np.std: the population standard deviation, NaN when a value is NaN
Std(s) ==
    IF HasNaN(s) \/ Len(s) = 0 THEN NaN
    ELSE LET mu == Mean(s)
             squares == [i \in 1..Len(s) |-> RMul(RSub(s[i], mu), RSub(s[i], mu))]
         IN  RSqrt(Mean(squares))

\* np.polyfit(arange(5), recent_5, 1)[0]: the least-squares slope
\* sum((x - 2) * y) / 10 of five points
Slope5(y) ==
    RDiv(RSum([i \in 1..5 |-> RMul(Num(i - 3, 1), y[i])]), Num(10, 1))

\* a column assignment result_df[name] = value
Assign(cond, name, value) == IF cond THEN <<[name |-> name, value |-> value]>> ELSE <<>>

\* the divisor max(avg, 0.1) of lines 167, 171, 176, 237
AtLeastTenth(avg) == RMax(avg, Num(1, 10))

HasLine(line) == ~IsNone(line) /\ ~IsNaN(line)

\* lines 161-194: the line context features
LineContext(stats, line, recent_5_avg, recent_10_avg, season_avg, recent_10_std) ==
    IF ~HasLine(line) THEN <<>>
    ELSE Assign(TRUE, col_line, line)
         \o Assign(~IsNaN(recent_5_avg), col_line_vs_recent_5, RSub(line, recent_5_avg))
         \o Assign(~IsNaN(recent_5_avg), col_line_vs_recent_5_pct,
                   RDiv(RSub(line, recent_5_avg), AtLeastTenth(recent_5_avg)))
         \o Assign(~IsNaN(recent_10_avg), col_line_vs_recent_10, RSub(line, recent_10_avg))
         \o Assign(~IsNaN(recent_10_avg), col_line_vs_recent_10_pct,
                   RDiv(RSub(line, recent_10_avg), AtLeastTenth(recent_10_avg)))
         \o Assign(~IsNaN(season_avg), col_line_vs_season_avg, RSub(line, season_avg))
         \o Assign(~IsNaN(season_avg), col_line_vs_season_avg_pct,
                   RDiv(RSub(line, season_avg), AtLeastTenth(season_avg)))
         \o Assign(~IsNaN(recent_10_std) /\ RLt(Zero, recent_10_std), col_line_difficulty,
                   IF IsNaN(recent_10_avg) \/ IsNaN(recent_10_std)
                         \/ ~RLt(Zero, recent_10_std) THEN NaN
                   ELSE RDiv(RSub(line, recent_10_avg), recent_10_std))
         \o Assign(TRUE, col_recent_similar_line_count,
                   Num(Cardinality({i \in 1..Len(LastOf(stats, 10)) :
                           /\ IsNum(LastOf(stats, 10)[i])
                           /\ RLe(RAbs(RSub(LastOf(stats, 10)[i], line)), Num(3, 2))}), 1))

\* lines 197-205; polyfit on a window holding NaN answers NaN or raises
\* LinAlgError, as the linear algebra build has it
Trend(stats, polyfit_nan) ==
    IF HasNaN(LastOf(stats, 5))
      THEN IF polyfit_nan = "raises" THEN <<[name |-> col_trend_5_games, value |-> Raised]>>
           ELSE Assign(TRUE, col_trend_5_games, NaN)
    ELSE Assign(TRUE, col_trend_5_games, Slope5(LastOf(stats, 5)))

\* lines 207-214
Momentum(stats) ==
    IF Len(stats) < 6 THEN <<>>
    ELSE LET prev_3_avg == Mean(SubSeq(stats, Len(stats) - 5, Len(stats) - 3))
             last_3_avg == Mean(LastOf(stats, 3))
         IN  Assign(TRUE, col_momentum,
                    IF ~IsNaN(prev_3_avg) /\ RLt(Zero, prev_3_avg)
                      THEN IF IsNaN(last_3_avg) THEN NaN
                           ELSE RDiv(RSub(last_3_avg, prev_3_avg), prev_3_avg)
                    ELSE Zero)

\* lines 216-231
Volatility(recent_5_avg, recent_10_avg, season_avg, recent_10_std) ==
    Assign(~IsNaN(recent_10_std), col_volatility, recent_10_std)
    \o Assign(TRUE, col_consistency_score,
              IF ~IsNaN(recent_10_avg) /\ RLt(Zero, recent_10_avg) /\ ~IsNaN(recent_10_std)
                THEN RSub(One, RDiv(recent_10_std, recent_10_avg))
              ELSE Num(1, 2))
    \o Assign(~IsNaN(season_avg) /\ RLt(Zero, season_avg) /\ ~IsNaN(recent_5_avg),
              col_recent_vs_season_5,
              IF IsNaN(season_avg) \/ IsNaN(recent_5_avg) \/ ~RLt(Zero, season_avg) THEN NaN
              ELSE RDiv(RSub(recent_5_avg, season_avg), season_avg))
    \o Assign(~IsNaN(season_avg) /\ RLt(Zero, season_avg) /\ ~IsNaN(recent_10_avg),
              col_recent_vs_season_10,
              IF IsNaN(season_avg) \/ IsNaN(recent_10_avg) \/ ~RLt(Zero, season_avg) THEN NaN
              ELSE RDiv(RSub(recent_10_avg, season_avg), season_avg))

\* lines 233-239
Interactions(line, recent_5_avg, recent_10_std) ==
    IF ~HasLine(line) THEN <<>>
    ELSE Assign(~IsNaN(recent_5_avg), col_rolling_5_x_line,
                IF IsNaN(recent_5_avg) THEN NaN ELSE RMul(recent_5_avg, line))
         \o Assign(~IsNaN(recent_5_avg), col_line_div_rolling_5,
                   IF IsNaN(recent_5_avg) THEN NaN
                   ELSE RDiv(line, AtLeastTenth(recent_5_avg)))
         \o Assign(~IsNaN(recent_10_std) /\ RLt(Zero, recent_10_std), col_volatility_x_line,
                   IF IsNaN(recent_10_std) THEN NaN ELSE RMul(recent_10_std, line))

\* lines 151-239 for the four rolling statistics of lines 153-158
EngineeredFrom(stats, line, polyfit_nan, recent_5_avg, recent_10_avg, season_avg, recent_10_std) ==
    LineContext(stats, line, recent_5_avg, recent_10_avg, season_avg, recent_10_std)
    \o Trend(stats, polyfit_nan)
    \o Momentum(stats)
    \o Volatility(recent_5_avg, recent_10_avg, season_avg, recent_10_std)
    \o Interactions(line, recent_5_avg, recent_10_std)

\* lines 148-239: the columns assigned when the raw stat column is found and
\* the log is not empty: none at all with fewer than 5 games
Engineered(stats, line, polyfit_nan) ==
    IF Len(stats) < 5 THEN <<>>
    ELSE EngineeredFrom(stats, line, polyfit_nan,
                        Mean(LastOf(stats, 5)),
                        IF Len(stats) >= 10 THEN Mean(LastOf(stats, 10)) ELSE NaN,
                        Mean(stats),
                        IF Len(stats) >= 10 THEN Std(LastOf(stats, 10)) ELSE NaN)

\* lines 245-248 adding nothing
Fallback_none(line) == <<>>

\* lines 245-248: without a stat column the line is the one column added
Fallback(line) == Assign(~IsNone(line), col_line, line)

\* fillna(0) of one value
FillValue(v) == IF IsNaN(v) THEN Zero ELSE v

\* line 251 left out
FillNa_skipped(matrix) == matrix

\* line 251: result_df.fillna(0), which repeats the fill of the added columns
\* of lines 242-244
FillNa(matrix) ==
    [cols |-> matrix.cols,
     rows |-> [i \in 1..Len(matrix.rows) |->
                  [col \in DOMAIN matrix.rows[i] |-> FillValue(matrix.rows[i][col])]]]

\* lines 124 and 162-248: the feature columns of the sorted log followed by
\* the assigned columns, each assigned value repeated in every row
WithColumns(features_df, feature_cols, added) ==
    LET names == [k \in 1..Len(added) |-> added[k].name]
        value(col) == added[CHOOSE k \in 1..Len(added) : added[k].name = col].value
    IN  [cols |-> feature_cols \o names,
         rows |-> [i \in 1..NRows(features_df) |->
                      [col \in SeqRange(feature_cols) \cup SeqRange(names) |->
                          IF col \in SeqRange(names) THEN value(col)
                          ELSE features_df.rows[i][col]]]]

FeatureMatrix(matrix) == [k |-> "ok", cols |-> matrix.cols, rows |-> matrix.rows]
FeatureError == [k |-> "raise", cols |-> <<>>, rows |-> <<>>]

\* lines 126-253, for the sorted log and its feature columns
BuildFeatures(features_df, feature_cols, stat, line, polyfit_nan) ==
    LET added == IF stat.found /\ HasColumn(features_df, stat.col) /\ NRows(features_df) > 0
                   THEN Engineered(Column(features_df, stat.col), line, polyfit_nan)
                 ELSE Fallback(line)
    IN  IF \E k \in 1..Len(added) : IsRaised(added[k].value) THEN FeatureError
        ELSE FeatureMatrix(FillNa(WithColumns(features_df, feature_cols, added)))

\* lines 80-253
prepare_features_for_prediction(df, prop_type, line, polyfit_nan) ==
    LET features_df == SortByDate(df)
        feature_cols == FeatureColumns(features_df)
    IN  IF Len(feature_cols) = 0 THEN FeatureError
        ELSE BuildFeatures(features_df, feature_cols,
                           FindStatColumn(feature_cols, prop_type), line, polyfit_nan)

(***************************************************************************)
(* The logs the model draws for the feature builder.  A log is given by    *)
(* its length, the shape of its stat series, the order its rows come in    *)
(* and a column layout.  A series is read backwards from the latest game:  *)
(* ago = 0 is the latest game.                                             *)
(***************************************************************************)
Shapes == {"swing", "flat", "zero", "gap", "oldgap"}

\* the stat value of the game `ago` games before the latest
SwingStat(ago) ==
    IF ago <= 2 THEN Num(12, 1) ELSE IF ago <= 7 THEN Num(8, 1)
    ELSE IF ago <= 9 THEN Num(12, 1) ELSE Num(10, 1)

ShapeStat(shape, ago) ==
    IF shape = "flat" THEN Num(10, 1)
    ELSE IF shape = "zero" THEN Zero
    ELSE IF shape = "gap" /\ ago = 1 THEN NaN
    ELSE IF shape = "oldgap" /\ ago = 5 THEN NaN
    ELSE SwingStat(ago)

\* the games of a log in date order: game j of n is n - j games ago
ShapedGames(shape, n) ==
    [j \in 1..n |-> [stat |-> ShapeStat(shape, n - j),
                     alt |-> IF (n - j) = 2 THEN NaN ELSE Num(n - j, 1),
                     target |-> Num((n - j) % 2, 1)]]

FeatLayouts ==
    {<<col_game_date, col_pts, col_feat_roll_pts_5, col_target_pts>>,
     <<col_game_date, col_feat_roll_pts_5, col_is_home, col_target_pts>>,
     <<col_game_date, col_feat_roll_pts_5, col_target_pts>>,
     <<col_game_date, col_target_pts>>}
FeatLines == {Num(10, 1), Num(21, 2), NoneV, NaN}
FeatPropTypes == {prop_Points, prop_Rebounds}

FeatCall(fn, shape, n, order, df, prop_type, line, ret) ==
    [fn |-> fn, shape |-> shape, n |-> n, order |-> order, df |-> df,
     prop_type |-> prop_type, line |-> line, ret |-> ret]
NoFeatCall == FeatCall("none", "", 0, "", NoFrame, <<>>, NoneV, FeatureError)

FeatInit == feat_call = NoFeatCall

FeatIdle == feat_call.fn = "none"

\* one call prepare_features_for_prediction(df, prop_type, line)
PrepareFeatures ==
    /\ FeatIdle
    /\ \E layout \in FeatLayouts, shape \in Shapes, n \in 0..MaxFeatRows,
          order \in RowOrders, prop_type \in FeatPropTypes, line \in FeatLines,
          polyfit_nan \in {"nan", "raises"} :
           LET df == OrderedFrame(layout, ShapedGames(shape, n), order)
           IN  feat_call' =
                   FeatCall("prepare_features_for_prediction", shape, n, order, df,
                            prop_type, line,
                            prepare_features_for_prediction(df, prop_type, line,
                                                            polyfit_nan))
    /\ UNCHANGED exceptFeat

\* the caller has taken the matrix
FeatReturn ==
    /\ ~FeatIdle
    /\ feat_call' = NoFeatCall
    /\ UNCHANGED exceptFeat

FeatNext == PrepareFeatures \/ FeatReturn

(***************************************************************************)
(* feature_engineering.py : create_training_data, with the rows of X and   *)
(* y it pairs.                                                             *)
(*                                                                         *)
(* A log read from the store has the index 0..n-1 in row order.  y keeps   *)
(* the index of the log; X is built from the log sorted by game_date with  *)
(* its index reset (lines 99-100), so its index is 0..n-1 in date order.   *)
(* X.loc[common_idx] and y.loc[common_idx] pair the rows by index label.   *)
(***************************************************************************)
col_historical_hit_rate_similar_line ==
    <<"h", "i", "s", "t", "o", "r", "i", "c", "a", "l", "_", "h", "i", "t", "_",
      "r", "a", "t", "e", "_", "s", "i", "m", "i", "l", "a", "r", "_", "l", "i", "n", "e">>

\* the game a row of a log is about, by its date
GameOf(df, i) == IF HasColumn(df, col_game_date) THEN df.rows[i][col_game_date] ELSE NoneV

\* lines 307-327: stats and y are read in the row order of the log
HitRates(df, stat, y, line) ==
    IF stat.found /\ HasColumn(df, stat.col)
      THEN [i \in 1..NRows(df) |-> HitRateSimilarLine(Column(df, stat.col), y, line, i)]
    ELSE <<>>

\* line 327: the list is assigned to the rows of X by position
WithHitRate(row, hit_rates, i) ==
    IF hit_rates = <<>> THEN row
    ELSE [col \in DOMAIN row \cup {col_historical_hit_rate_similar_line} |->
             IF col = col_historical_hit_rate_similar_line THEN hit_rates[i] ELSE row[col]]

\* lines 329-332: row i of X, the i-th game by date, with the label whose
\* index is i, that of the i-th row of the log
PairRows(df, X, y, hit_rates) ==
    [i \in 1..Len(X.rows) |->
        [x |-> WithHitRate(X.rows[i], hit_rates, i),
         x_game |-> GameOf(SortByDate(df), i),
         y |-> y[i],
         y_game |-> GameOf(df, i)]]

\* lines 334-337: the pairs whose features hold no NaN
ValidPairs(pairs) ==
    SelectSeq(pairs, LAMBDA pair : \A col \in DOMAIN pair.x : ~IsNaN(pair.x[col]))

TrainingSet(cols, pairs) == [k |-> "ok", cols |-> cols, pairs |-> pairs]
NoTrainingSet == [k |-> "raise", cols |-> <<>>, pairs |-> <<>>]

\* lines 270-337, once y and X are there
PairedTrainingSet(df, stat, y, X, line) ==
    IF y.k = "raise" \/ X.k = "raise" THEN NoTrainingSet
    ELSE TrainingSet(IF stat.found /\ HasColumn(df, stat.col)
                       THEN X.cols \o <<col_historical_hit_rate_similar_line>> ELSE X.cols,
                     ValidPairs(PairRows(df, X, Binarize(y.labels),
                                         HitRates(df, stat, Binarize(y.labels), line))))

\* lines 255-354: the training set with the game of every row of X and of y
training_pairs(df, prop_type, line, over_under, polyfit_nan) ==
    PairedTrainingSet(df, FindStatColumn(df.cols, prop_type),
                      create_target_variable(df, prop_type, line, over_under),
                      prepare_features_for_prediction(df, prop_type, line, polyfit_nan),
                      line)

\* The logs and arguments the model draws.
TrainLayouts ==
    {<<col_game_date, col_pts, col_feat_roll_pts_5, col_target_pts>>,
     <<col_game_date, col_feat_roll_pts_5, col_is_home, col_target_pts>>,
     <<col_game_date, col_feat_roll_pts_5, col_target_reb>>}
TrainShapes == {"swing", "flat", "gap"}
TrainLines == {Num(10, 1), Num(21, 2)}

TrainCall(fn, order, df, prop_type, line, over_under, ret) ==
    [fn |-> fn, order |-> order, df |-> df, prop_type |-> prop_type, line |-> line,
     over_under |-> over_under, ret |-> ret]
NoTrainCall == TrainCall("none", "", NoFrame, <<>>, NoneV, <<>>, NoTrainingSet)

TrainInit == train_call = NoTrainCall

\* one call create_training_data(df, prop_type, line, over_under)
CreateTrainingData ==
    /\ train_call.fn = "none"
    /\ \E layout \in TrainLayouts, shape \in TrainShapes, n \in 0..MaxTrainRows,
          order \in RowOrders, line \in TrainLines, over_under \in {Over, Under},
          polyfit_nan \in {"nan", "raises"} :
           LET df == OrderedFrame(layout, ShapedGames(shape, n), order)
           IN  train_call' =
                   TrainCall("create_training_data", order, df, prop_Points, line,
                             over_under,
                             training_pairs(df, prop_Points, line, over_under,
                                            polyfit_nan))
    /\ UNCHANGED exceptTrain

\* the caller has taken the training set
TrainReturn ==
    /\ train_call.fn # "none"
    /\ train_call' = NoTrainCall
    /\ UNCHANGED exceptTrain

TrainNext == CreateTrainingData \/ TrainReturn

(***************************************************************************)
(* main_workflow.py : generate_betting_dataset                             *)
(*                                                                         *)
(* One run is a sequence of steps: the scrape with the filters of lines    *)
(* 178-193, one step per proposition of the loop of lines 199-202, and the *)
(* return of lines 204-231.  The final frame is kept as its rows, the      *)
(* records in sorted order; the Generated_At and Kelly_Adjusted_EV columns *)
(* added to them are not kept.                                             *)
(***************************************************************************)
\* lines 186-187: the Over rows when filter_overs_only is set
FilterOvers(odds_df, filter_overs_only) ==
    IF filter_overs_only THEN SelectSeq(odds_df, LAMBDA row : row.over_under = Over)
    ELSE odds_df

\* lines 191-192: head(max_props) when max_props is given and not 0
Head_(odds_df, max_props) ==
    IF max_props = 0 \/ Len(odds_df) <= max_props THEN odds_df
    ELSE SubSeq(odds_df, 1, max_props)

\* line 223: Kelly_Fraction.clip(lower=0, upper=1)
Clip01(kelly) == IF IsNaN(kelly) THEN NaN ELSE RMax(Zero, RMin(One, kelly))

\* line 224: Expected_Value * kelly_clipped ** 1.5, kept as its sign and its
\* square EV^2 * kelly^3, which order it
AdjIsNaN(r) == IsNaN(r.Expected_Value) \/ IsNaN(r.Kelly_Fraction)
AdjSign(r) ==
    IF Clip01(r.Kelly_Fraction) = Zero \/ r.Expected_Value = Zero THEN 0
    ELSE IF RLt(Zero, r.Expected_Value) THEN 1 ELSE -1
AdjSquare(r) ==
    RMul(RMul(r.Expected_Value, r.Expected_Value),
         RMul(Clip01(r.Kelly_Fraction),
              RMul(Clip01(r.Kelly_Fraction), Clip01(r.Kelly_Fraction))))
AdjLess(a, b) ==
    \/ AdjSign(a) < AdjSign(b)
    \/ AdjSign(a) = 1 /\ AdjSign(b) = 1 /\ RLt(AdjSquare(a), AdjSquare(b))
    \/ AdjSign(a) = -1 /\ AdjSign(b) = -1 /\ RLt(AdjSquare(b), AdjSquare(a))

\* lines 227-231: descending by Kelly_Adjusted_EV, then by Expected_Value,
\* NaN last; a comes before b, or they tie
KeyBefore(a, b) == ~AdjIsNaN(a) /\ (AdjIsNaN(b) \/ AdjLess(b, a))
KeyTie(a, b) ==
    \/ AdjIsNaN(a) /\ AdjIsNaN(b)
    \/ ~AdjIsNaN(a) /\ ~AdjIsNaN(b) /\ ~AdjLess(a, b) /\ ~AdjLess(b, a)
EvBefore(a, b) ==
    /\ ~IsNaN(a.Expected_Value)
    /\ IsNaN(b.Expected_Value) \/ RLt(b.Expected_Value, a.Expected_Value)
EvTie(a, b) ==
    \/ IsNaN(a.Expected_Value) /\ IsNaN(b.Expected_Value)
    \/ a.Expected_Value = b.Expected_Value

\* lines 227-231: sort_values; rows that tie on both keys keep their order
SortByKellyAdjusted(results) ==
    LET before(i, j) ==
            \/ KeyBefore(results[i], results[j])
            \/ /\ KeyTie(results[i], results[j])
               /\ \/ EvBefore(results[i], results[j])
                  \/ EvTie(results[i], results[j]) /\ i < j
        rank(i) == Cardinality({j \in 1..Len(results) : before(j, i)}) + 1
    IN  [p \in 1..Len(results) |->
            results[CHOOSE i \in 1..Len(results) : rank(i) = p]]

\* lines 204-231: the frame returned after the loop
FinalFrame(results) ==
    IF Len(results) = 0 THEN <<>> ELSE SortByKellyAdjusted(results)

\* line 201: "if result:" holds for a record and not for None
Truthy(result) == result.k = "record"

Batch(status, filter_overs_only, min_games, odds_df, processed, results, final) ==
    [status |-> status, filter_overs_only |-> filter_overs_only,
     min_games |-> min_games, odds_df |-> odds_df, processed |-> processed,
     results |-> results, final |-> final]
NoBatch == Batch("idle", FALSE, 0, <<>>, <<>>, <<>>, <<>>)

\* what one pass of the loop did: the proposition, what the store and the
\* classifier answered, and what process_prop left
Processed(row, store, clf, outcome) ==
    [row |-> row, store |-> store, clf |-> clf, outcome |-> outcome]

\* The scraped propositions and the collaborators' answers the model draws.
BatchRows ==
    [prop_type : {prop_Points}, line : {Num(10, 1)}, over_under : {Over, Under},
     odds : {IntOdds(-110), StrOdds(OFF)}]
ScrapedOdds == UNION {[1..n -> BatchRows] : n \in 0..MaxProps}
BatchHistories ==
    {StoreRaised,
     StoreFrame(OrderedFrame(<<col_game_date, col_pts, col_feat_roll_pts_5, col_target_pts>>,
                      <<[stat |-> Num(8, 1), alt |-> Num(12, 1), target |-> Zero]>>, "desc")),
     StoreFrame(OrderedFrame(<<col_game_date, col_pts, col_feat_roll_pts_5, col_target_pts>>,
                      <<[stat |-> Num(8, 1), alt |-> Num(12, 1), target |-> Zero],
                        [stat |-> Num(12, 1), alt |-> Num(8, 1), target |-> One]>>, "desc")),
     StoreFrame(OrderedFrame(<<col_game_date, col_feat_roll_pts_5, col_target_reb>>,
                      <<[stat |-> Num(8, 1), alt |-> Num(12, 1), target |-> Zero],
                        [stat |-> Num(12, 1), alt |-> Num(8, 1), target |-> One]>>, "desc"))}
BatchClassifierAnswers == {ClfRaised, ClfTriple(One, Pct(80), One)}

BatchInit == batch = NoBatch

\* lines 156-193: the scrape and the filters; an empty scrape returns at once
GenerateBettingDataset ==
    /\ batch.status = "idle"
    /\ \E scraped \in ScrapedOdds, filter_overs_only \in BOOLEAN,
          min_games \in {2, 10}, max_props \in 0..1 :
           batch' =
               IF Len(scraped) = 0
                 THEN Batch("done", filter_overs_only, min_games, <<>>, <<>>, <<>>, <<>>)
               ELSE Batch("running", filter_overs_only, min_games,
                          Head_(FilterOvers(scraped, filter_overs_only), max_props),
                          <<>>, <<>>, <<>>)
    /\ UNCHANGED exceptBatch

\* lines 200-202: the run after one pass that left this outcome
AfterPass(run, row, store, clf, outcome) ==
    [run EXCEPT
        !.status = IF outcome.result.k = "raise" THEN "aborted" ELSE @,
        !.processed = Append(@, Processed(row, store, clf, outcome)),
        !.results = IF Truthy(outcome.result) THEN Append(@, outcome.result) ELSE @]

\* line 200: the call of process_prop on one proposition of the run
Pass(run, row, store, clf) ==
    AfterPass(run, row, store, clf,
              process_prop(row, run.filter_overs_only, run.min_games, store, clf))

\* lines 199-202: one pass of the loop; an exception leaving process_prop
\* ends the run
ProcessNextProp ==
    /\ batch.status = "running"
    /\ Len(batch.processed) < Len(batch.odds_df)
    /\ \E store \in BatchHistories, clf \in BatchClassifierAnswers :
           batch' = Pass(batch, batch.odds_df[Len(batch.processed) + 1], store, clf)
    /\ UNCHANGED exceptBatch

\* lines 204-255: the loop is over; the frame is built, sorted and returned
FinishBatch ==
    /\ batch.status = "running"
    /\ Len(batch.processed) = Len(batch.odds_df)
    /\ batch' = [batch EXCEPT !.status = "done", !.final = FinalFrame(batch.results)]
    /\ UNCHANGED exceptBatch

\* the caller has taken the frame (or the exception)
BatchReturn ==
    /\ batch.status \in {"done", "aborted"}
    /\ batch' = NoBatch
    /\ UNCHANGED exceptBatch

BatchNext == GenerateBettingDataset \/ ProcessNextProp \/ FinishBatch \/ BatchReturn

(***************************************************************************)
(* track_outcomes.py : determine_outcome, calculate_profit_loss,           *)
(* update_bet_tracking, process_past_props                                 *)
(*                                                                         *)
(* Every call of get_db_connection opens a connection of its own, so the   *)
(* statements of one run are separate transactions: the SELECT of          *)
(* process_past_props, the existence check of update_bet_tracking and its  *)
(* UPDATE or INSERT with the commit are steps that the steps of another    *)
(* run can come between.  A statement sees the committed rows.             *)
(***************************************************************************)
\* lines 218-244: "True", "False", "None" (a push), or the ValueError
determine_outcome(actual_stat, line, over_under) ==
    IF over_under = Over THEN
        IF Gt(actual_stat, line) THEN "True"
        ELSE IF Lt(actual_stat, line) THEN "False"
        ELSE "None"
    ELSE IF over_under = Under THEN
        IF Lt(actual_stat, line) THEN "True"
        ELSE IF Gt(actual_stat, line) THEN "False"
        ELSE "None"
    ELSE "ValueError"

\* lines 246-268, with bet_amount = 100.0
calculate_profit_loss(outcome, odds) ==
    IF outcome # "True" THEN Num(-100, 1)
    ELSE IF odds > 0 THEN RSub(RMul(Num(100, 1), RAdd(One, Num(odds, 100))), Num(100, 1))
    ELSE RSub(RMul(Num(100, 1), RAdd(One, Num(100, Abs(odds)))), Num(100, 1))

\* lines 291, 311: calculate_profit_loss(outcome, odds) if odds else None
ProfitLoss(outcome, odds) ==
    IF odds = 0 THEN NoneV ELSE calculate_profit_loss(outcome, odds)

\* Dates are day numbers; date.today() is Today.
Today == 2
Yesterday == Today - 1

\* a row of processed_props
SavedProp(line, over_under, odds, game_date) ==
    [line |-> line, over_under |-> over_under, odds |-> odds, game_date |-> game_date]

\* a row of bet_tracking (lines 304-313)
BetRow(prop_id, outcome, actual_result, profit_loss, game_date) ==
    [prop_id |-> prop_id, outcome |-> outcome, actual_result |-> actual_result,
     profit_loss |-> profit_loss, game_date |-> game_date]

RowsOf(table, prop_id) == {i \in 1..Len(table) : table[i].prop_id = prop_id}

\* lines 363-374: the propositions the query selects, those of the window
\* with no bet_tracking row or with one whose outcome is NULL
Selected(props, table, start_date, end_date) ==
    {id \in DOMAIN props :
        /\ props[id].game_date >= start_date
        /\ props[id].game_date <= end_date
        /\ \/ RowsOf(table, id) = {}
           \/ \E i \in RowsOf(table, id) : table[i].outcome = "None"}

\* line 374: ORDER BY game_date DESC, generated_at DESC (a later id was
\* generated later)
RECURSIVE Ordered(_, _)
Ordered(props, ids) ==
    IF ids = {} THEN <<>>
    ELSE LET first == CHOOSE id \in ids :
                 \A other \in ids :
                     \/ props[id].game_date > props[other].game_date
                     \/ props[id].game_date = props[other].game_date /\ id >= other
         IN  <<first>> \o Ordered(props, ids \ {first})

\* lines 349-379: the frame a run reads
PastProps(props, table, start_date) ==
    Ordered(props, Selected(props, table, start_date, Yesterday))

\* lines 283-292: the UPDATE of every row of the proposition
UpdateRows(table, prop_id, outcome, actual_result, odds) ==
    [i \in 1..Len(table) |->
        IF table[i].prop_id = prop_id
          THEN [table[i] EXCEPT !.outcome = outcome, !.actual_result = actual_result,
                                !.profit_loss = ProfitLoss(outcome, odds)]
        ELSE table[i]]

\* lines 293-316: the INSERT of one row, when processed_props has the id
InsertRow(table, props, prop_id, outcome, actual_result, game_date, odds) ==
    IF prop_id \in DOMAIN props
      THEN Append(table, BetRow(prop_id, outcome, actual_result,
                                ProfitLoss(outcome, odds), game_date))
    ELSE table

\* lines 281-316: the statement update_bet_tracking runs after its check
WriteRows(table, props, existing, prop_id, outcome, actual_result, game_date, odds) ==
    IF existing THEN UpdateRows(table, prop_id, outcome, actual_result, odds)
    ELSE InsertRow(table, props, prop_id, outcome, actual_result, game_date, odds)

\* a run of process_past_props: where it is, the frame it read, the row of
\* the frame it is at, and what it holds for that row
Run(pc, df, i, actual_stat, outcome, existing) ==
    [pc |-> pc, df |-> df, i |-> i, actual_stat |-> actual_stat, outcome |-> outcome,
     existing |-> existing]
NoRun == Run("idle", <<>>, 0, NoneV, "None", FALSE)

\* lines 408, 415-416: a printed outcome line
LogLine(prop_id, outcome) == [prop_id |-> prop_id, outcome |-> outcome]

\* The two runs (two /api/reload requests, or the script and a request), the
\* tables and the answers the model draws.
Runs == {1, 2}
TrackSides == {Over, Under}
TrackLine == Num(10, 1)
TrackOdds(over_under) == IF over_under = Over THEN -110 ELSE 150
StatAnswers == {NoneV, NaN, Num(8, 1), Num(10, 1)}
\* a game of today has no stat yet
SavedGames ==
    {g \in [game_date : {Yesterday, Today}, over_under : TrackSides, stat : StatAnswers] :
        g.game_date = Today => g.stat = NoneV}
SavedTables == UNION {[1..n -> SavedGames] : n \in 1..MaxTracked}
StartDates == {Yesterday, Today}

DoCall(fn, actual_stat, line, over_under, ret) ==
    [fn |-> fn, actual_stat |-> actual_stat, line |-> line, over_under |-> over_under,
     ret |-> ret]
NoDoCall == DoCall("none", NoneV, NoneV, <<>>, "None")
OutcomeStats == {NaN, Num(8, 1), Num(10, 1), Num(21, 2), Num(12, 1)}
OutcomeLines == {Num(10, 1), Num(21, 2)}

TrackInit ==
    /\ processed_props = <<>>
    /\ actual_stats = <<>>
    /\ bet_tracking = <<>>
    /\ runs = [r \in Runs |-> NoRun]
    /\ track_log = {}
    /\ do_call = NoDoCall

\* a call of determine_outcome
DetermineOutcome ==
    /\ do_call.fn = "none"
    /\ \E actual_stat \in OutcomeStats, line \in OutcomeLines, over_under \in Sides :
           do_call' = DoCall("determine_outcome", actual_stat, line, over_under,
                             determine_outcome(actual_stat, line, over_under))
    /\ UNCHANGED <<processed_props, actual_stats, bet_tracking, runs, track_log>>
    /\ UNCHANGED exceptTrack

DoReturn ==
    /\ do_call.fn # "none"
    /\ do_call' = NoDoCall
    /\ UNCHANGED <<processed_props, actual_stats, bet_tracking, runs, track_log>>
    /\ UNCHANGED exceptTrack

\* save_to_database.py has saved the propositions of the day's run, and the
\* games have (or have not) been played
SaveProps ==
    /\ processed_props = <<>>
    /\ \E games \in SavedTables :
           /\ processed_props' =
                  [id \in DOMAIN games |->
                      SavedProp(TrackLine, games[id].over_under,
                                TrackOdds(games[id].over_under), games[id].game_date)]
           /\ actual_stats' = [id \in DOMAIN games |-> games[id].stat]
    /\ UNCHANGED <<bet_tracking, runs, track_log, do_call>>
    /\ UNCHANGED exceptTrack

\* lines 343-381: a run starts and reads the propositions to process
StartRun ==
    /\ processed_props # <<>>
    /\ \E r \in Runs, start_date \in StartDates :
           /\ runs[r].pc = "idle"
           /\ runs' = [runs EXCEPT ![r] =
                          Run("loop", PastProps(processed_props, bet_tracking, start_date),
                              1, NoneV, "None", FALSE)]
    /\ UNCHANGED <<processed_props, actual_stats, bet_tracking, track_log, do_call>>
    /\ UNCHANGED exceptTrack

\* lines 383-410: the run after the lookup of its row's actual stat
AfterLookup(run, prop_id, actual_stat, outcome) ==
    IF IsNone(actual_stat) \/ outcome = "None" THEN [run EXCEPT !.i = @ + 1]
    ELSE IF outcome = "ValueError" THEN NoRun
    ELSE [run EXCEPT !.pc = "check", !.actual_stat = actual_stat, !.outcome = outcome]

\* line 408: the PUSH line
LogAfterLookup(log, prop_id, actual_stat, outcome) ==
    IF ~IsNone(actual_stat) /\ outcome = "None"
      THEN log \cup {LogLine(prop_id, "None")} ELSE log

\* lines 383-410: get_actual_stat and determine_outcome for the next row
Lookup ==
    \E r \in Runs :
        /\ runs[r].pc = "loop"
        /\ runs[r].i <= Len(runs[r].df)
        /\ LET prop_id == runs[r].df[runs[r].i]
               outcome == determine_outcome(actual_stats[prop_id],
                                            processed_props[prop_id].line,
                                            processed_props[prop_id].over_under)
           IN  /\ runs' = [runs EXCEPT ![r] =
                              AfterLookup(@, prop_id, actual_stats[prop_id], outcome)]
               /\ track_log' = LogAfterLookup(track_log, prop_id, actual_stats[prop_id],
                                              outcome)
        /\ UNCHANGED <<processed_props, actual_stats, bet_tracking, do_call>>
        /\ UNCHANGED exceptTrack

\* lines 277-281: the existence check of update_bet_tracking
CheckExisting ==
    \E r \in Runs :
        /\ runs[r].pc = "check"
        /\ runs' = [runs EXCEPT ![r].pc = "write",
                                ![r].existing =
                                    RowsOf(bet_tracking, runs[r].df[runs[r].i]) # {}]
        /\ UNCHANGED <<processed_props, actual_stats, bet_tracking, track_log, do_call>>
        /\ UNCHANGED exceptTrack

\* lines 283-319, 415-417: the UPDATE or INSERT, the commit and the outcome line
WriteOutcome ==
    \E r \in Runs :
        /\ runs[r].pc = "write"
        /\ LET prop_id == runs[r].df[runs[r].i]
           IN  /\ bet_tracking' =
                      WriteRows(bet_tracking, processed_props, runs[r].existing, prop_id,
                                runs[r].outcome, runs[r].actual_stat,
                                processed_props[prop_id].game_date,
                                processed_props[prop_id].odds)
               /\ track_log' = track_log \cup {LogLine(prop_id, runs[r].outcome)}
        /\ runs' = [runs EXCEPT ![r] = [@ EXCEPT !.pc = "loop", !.i = @ + 1]]
        /\ UNCHANGED <<processed_props, actual_stats, do_call>>
        /\ UNCHANGED exceptTrack

\* lines 419-426: the loop is over and the run returns
FinishRun ==
    \E r \in Runs :
        /\ runs[r].pc = "loop"
        /\ runs[r].i > Len(runs[r].df)
        /\ runs' = [runs EXCEPT ![r] = NoRun]
        /\ UNCHANGED <<processed_props, actual_stats, bet_tracking, track_log, do_call>>
        /\ UNCHANGED exceptTrack

TrackNext ==
    \/ DetermineOutcome \/ DoReturn \/ SaveProps \/ StartRun \/ Lookup
    \/ CheckExisting \/ WriteOutcome \/ FinishRun

(***************************************************************************)
(* Specifications: one per part of the program.                            *)
(***************************************************************************)
Init == CalInit /\ EvInit /\ TgtInit /\ PpInit /\ PredInit /\ FeatInit /\ BatchInit /\ TrackInit /\ TrainInit /\ RecInit

\* the calls of PropPredictor._calibrate_probability
SpecCalibrate == Init /\ [][CalNext]_vars

\* the calls of the functions of expected_value.py
SpecEV == Init /\ [][EvNext]_vars

\* the calls of create_target_variable
SpecTarget == Init /\ [][TgtNext]_vars

\* the calls of the methods of one PropPredictor instance
SpecPredictor == Init /\ [][PredNext]_vars

\* the calls of prepare_features_for_prediction
SpecFeatures == Init /\ [][FeatNext]_vars

\* the runs of generate_betting_dataset
SpecBatch == Init /\ [][BatchNext]_vars

\* the calls of determine_outcome and the runs of process_past_props
SpecTrack == Init /\ [][TrackNext]_vars

\* the calls of create_training_data on whole logs
SpecTraining == Init /\ [][TrainNext]_vars

\* lines 73-150 of process_prop, for the triples a classifier can return
SpecRecord == Init /\ [][RecNext]_vars

\* the calls of process_prop
Next == PpNext

Spec == Init /\ [][Next]_vars

(***************************************************************************)
(* Claims about _calibrate_probability, under SpecCalibrate.               *)
(***************************************************************************)
CalCalled == IsNum(cal_last.prob)
CalCalledTwice == IsNum(cal_prev.prob) /\ IsNum(cal_last.prob)
InUnit(v) == IsNum(v) /\ RLe(Zero, v) /\ RLe(v, One)

\* C2: for every raw probability in [0,1] and every implied probability
\* (absent, NaN or any number) the returned value lies in [0.10, 0.75].
C2_CalibrateRange ==
    CalCalled => /\ IsNum(cal_last.out)
                 /\ RLe(Pct(10), cal_last.out)
                 /\ RLe(cal_last.out, Pct(75))

\* a call whose implied probability lies outside [0,1] and is blended in
C2_Witness ==
    /\ CalCalled
    /\ cal_implied = Num(3, 2)
    /\ cal_last.prob = Zero
    /\ cal_last.out # PiecewiseCalibrate(cal_last.prob)

\* the claim's segment formulas, with p the raw probability
SegmentFormula(p) ==
    IF RLt(Pct(90), p)
      THEN RAdd(Pct(65), RMul(RDiv(RSub(p, Pct(90)), Pct(10)), Pct(10)))
    ELSE IF RLt(Pct(75), p)
      THEN RAdd(Pct(60), RMul(RDiv(RSub(p, Pct(75)), Pct(15)), Pct(5)))
    ELSE IF RLt(p, Pct(10))
      THEN RAdd(Pct(10), RMul(RDiv(p, Pct(10)), Pct(10)))
    ELSE RAdd(Pct(20), RMul(RDiv(RSub(p, Pct(10)), Pct(65)), Pct(40)))

\* the interval the claim maps p's segment onto
SegmentRange(p) ==
    IF RLt(Pct(90), p) THEN <<Pct(65), Pct(75)>>
    ELSE IF RLt(Pct(75), p) THEN <<Pct(60), Pct(65)>>
    ELSE IF RLt(p, Pct(10)) THEN <<Pct(10), Pct(20)>>
    ELSE <<Pct(20), Pct(60)>>

\* C3: with no implied probability supplied the result is the segment's
\* linear formula of the raw probability and lies in the segment's interval.
C3_PiecewiseFormula ==
    (CalCalled /\ IsNone(cal_implied)) =>
        /\ cal_last.out = SegmentFormula(cal_last.prob)
        /\ RLe(SegmentRange(cal_last.prob)[1], cal_last.out)
        /\ RLe(cal_last.out, SegmentRange(cal_last.prob)[2])

\* calls in the middle segment and in the 0.75-0.90 segment, none implied
C3_Witness ==
    /\ CalCalledTwice
    /\ IsNone(cal_implied)
    /\ cal_prev.prob = Pct(75) /\ cal_prev.out = Pct(60)
    /\ cal_last.prob = Pct(90) /\ cal_last.out = Pct(65)

\* the segment of a raw probability: 1 = [0,0.10), 2 = [0.10,0.75],
\* 3 = (0.75,0.90], 4 = (0.90,1]
Segment(p) ==
    IF RLt(Pct(90), p) THEN 4
    ELSE IF RLt(Pct(75), p) THEN 3
    ELSE IF RLt(p, Pct(10)) THEN 1
    ELSE 2

\* how the piecewise value of p stands to the implied probability q as the
\* code compares them: more than 0.20 above, more than 0.20 below, or within
BlendCase(p, q) ==
    IF IsNone(q) \/ IsNaN(q) THEN "within"
    ELSE LET c == PiecewiseCalibrate(p)
             qc == RMax(Pct(5), RMin(Pct(95), q))
         IN  IF RLt(RAdd(qc, Pct(20)), c) THEN "above"
             ELSE IF RLt(c, RSub(qc, Pct(20))) THEN "below"
             ELSE "within"

SameSegmentOrdered ==
    /\ CalCalledTwice
    /\ Segment(cal_prev.prob) = Segment(cal_last.prob)
    /\ RLe(cal_prev.prob, cal_last.prob)

\* C4 as stated: for any fixed implied probability (or none), p1 <= p2 in
\* the same segment gives Calibrate(p1) <= Calibrate(p2).
C4_MonotoneAnyImplied ==
    SameSegmentOrdered => RLe(cal_prev.out, cal_last.out)

\* C4 amended: for p1 <= p2 in the same segment whose piecewise values stand
\* in the same relation to the implied probability (both more than 0.20 above
\* it, both more than 0.20 below it, or both within 0.20 of it, which is
\* always so when none is supplied), Calibrate(p1) <= Calibrate(p2).
C4_MonotoneSameBlend ==
    (SameSegmentOrdered
        /\ BlendCase(cal_prev.prob, cal_implied) = BlendCase(cal_last.prob, cal_implied))
    => RLe(cal_prev.out, cal_last.out)

\* two blended calls in one segment with a strictly larger second result
C4_Witness ==
    /\ SameSegmentOrdered
    /\ IsNum(cal_implied)
    /\ BlendCase(cal_prev.prob, cal_implied) = "above"
    /\ BlendCase(cal_last.prob, cal_implied) = "above"
    /\ RLt(cal_prev.out, cal_last.out)

\* C5 as stated: for q in [0,1] the result is 0.6*c + 0.4*q (clamped to
\* [0.10, 0.75]) when |c - q| > 0.20, and c when |c - q| <= 0.20.
C5_BlendRawImplied ==
    (CalCalled /\ InUnit(cal_implied)) =>
        LET c == PiecewiseCalibrate(cal_last.prob)
            q == cal_implied
        IN  cal_last.out =
                IF RLt(Pct(20), RAbs(RSub(c, q)))
                  THEN RMax(Pct(10), RMin(Pct(75),
                           RAdd(RMul(Pct(60), c), RMul(Pct(40), q))))
                ELSE c

\* C5 amended: the same with q first clamped to [0.05, 0.95]: the comparison
\* and the blend both use the clamped implied probability.
C5_BlendClampedImplied ==
    (CalCalled /\ InUnit(cal_implied)) =>
        LET c == PiecewiseCalibrate(cal_last.prob)
            q == RMax(Pct(5), RMin(Pct(95), cal_implied))
        IN  cal_last.out =
                IF RLt(Pct(20), RAbs(RSub(c, q)))
                  THEN RMax(Pct(10), RMin(Pct(75),
                           RAdd(RMul(Pct(60), c), RMul(Pct(40), q))))
                ELSE c

\* a blended call whose implied probability 0 was clamped to 0.05 first
C5_Witness ==
    /\ CalCalled
    /\ cal_implied = Zero
    /\ cal_last.prob = Pct(75)
    /\ cal_last.out = RAdd(RMul(Pct(60), Pct(60)), RMul(Pct(40), Pct(5)))

(***************************************************************************)
(* Claims about expected_value.py, under SpecEV.                           *)
(***************************************************************************)
EvCalled(fn) == ev_call.fn = fn

C7_KellyNonNegative ==
    (EvCalled("calculate_kelly_criterion") /\ InUnit(ev_call.p)
        /\ IsNum(ev_call.d) /\ RLt(One, ev_call.d)) =>
        LET p == ev_call.p
            b == RSub(ev_call.d, One)
            f == RDiv(RSub(RMul(b, p), RSub(One, p)), b)
        IN  /\ IsNum(ev_call.ret)
            /\ RLe(Zero, ev_call.ret)
            /\ ev_call.ret = (IF RLt(f, Zero) THEN Zero ELSE f)

\* a call whose raw Kelly value is negative (p = 0.10 at odds -110), floored
C7_Witness ==
    /\ EvCalled("calculate_kelly_criterion")
    /\ ev_call.p = Pct(10)
    /\ ev_call.d = Num(21, 11)
    /\ ev_call.ret = Zero

\* the inputs the claim calls invalid: the sentinel, the empty string, the
\* strings that are no integer, and NaN
InvalidOdds(odds) ==
    \/ odds.t = "nan"
    \/ odds.t = "str" /\ odds.s \in NonNumericStrings

\* C8: american_to_decimal returns o/100 + 1 for a positive integer o and
\* 100/|o| + 1 for a negative one (-110 gives about 1.9091, 150 gives 2.5),
\* and NaN, without raising, for every invalid or sentinel input.
C8_AmericanToDecimal ==
    EvCalled("american_to_decimal") =>
        /\ (ev_call.odds.t = "int" /\ ev_call.odds.v > 0) =>
               ev_call.ret = RAdd(Num(ev_call.odds.v, 100), One)
        /\ (ev_call.odds.t = "int" /\ ev_call.odds.v < 0) =>
               ev_call.ret = RAdd(Num(100, -ev_call.odds.v), One)
        /\ ev_call.odds = IntOdds(-110) =>
               /\ RLt(Num(19090, 10000), ev_call.ret)
               /\ RLt(ev_call.ret, Num(19092, 10000))
        /\ ev_call.odds = IntOdds(150) => ev_call.ret = Num(5, 2)
        /\ InvalidOdds(ev_call.odds) => IsNaN(ev_call.ret)

\* the call american_to_decimal(-110)
C8_Witness ==
    /\ EvCalled("american_to_decimal")
    /\ ev_call.odds = IntOdds(-110)
    /\ ev_call.ret = Num(21, 11)

(***************************************************************************)
(* Claims about create_target_variable, under SpecTarget.                  *)
(***************************************************************************)
TgtCalled == tgt_call.fn = "create_target_variable"

\* the log has a raw stat column for the prop type: a column whose name
\* holds one of the prop type's keywords and neither "target" nor "feat"
HasRawStatColumn(df, prop_type) ==
    \E i \in 1..Len(df.cols), k \in 1..Len(StatKeywords(prop_type)) :
        MatchesKeyword(df.cols[i], StatKeywords(prop_type)[k])

\* the values of the raw stat column the call reads
ActualValues(call) == Column(call.df, FindStatColumn(call.df.cols, call.prop_type).col)

\* C10: with a raw stat column, every row is labelled 1 exactly when (side is
\* Over and actual > line) or (side is Under and actual < line), else 0; a row
\* whose actual equals the line is labelled 0 for both sides; actual
\* [10, 12, 8] with line 10 and Over gives [0, 1, 0].
C10_TargetLabels ==
    (TgtCalled /\ HasRawStatColumn(tgt_call.df, tgt_call.prop_type)
        /\ tgt_call.over_under \in {Over, Under}) =>
        LET actual == ActualValues(tgt_call)
            line == tgt_call.line
            y == tgt_call.ret.labels
        IN  /\ tgt_call.ret.k = "ok"
            /\ Len(y) = NRows(tgt_call.df)
            /\ \A i \in 1..Len(y) :
                   /\ y[i] \in {0, 1}
                   /\ y[i] = 1 <=>
                          \/ tgt_call.over_under = Over /\ Gt(actual[i], line)
                          \/ tgt_call.over_under = Under /\ Lt(actual[i], line)
                   /\ actual[i] = line => y[i] = 0
            /\ (actual = <<Num(10, 1), Num(12, 1), Num(8, 1)>>
                    /\ line = Num(10, 1) /\ tgt_call.over_under = Over)
                   => y = <<0, 1, 0>>

\* the claim's example: actual [10, 12, 8], line 10, Over, labels [0, 1, 0]
C10_Witness ==
    /\ TgtCalled
    /\ HasRawStatColumn(tgt_call.df, tgt_call.prop_type)
    /\ ActualValues(tgt_call) = <<Num(10, 1), Num(12, 1), Num(8, 1)>>
    /\ tgt_call.line = Num(10, 1)
    /\ tgt_call.over_under = Over
    /\ tgt_call.ret = Labels(<<0, 1, 0>>)


\* the prop type's fallback target column is a column of the log
HasFallbackColumn(df, prop_type) ==
    prop_type \in DOMAIN prop_to_target /\ HasColumn(df, prop_to_target[prop_type])

\* C11: create_target_variable fails with a labeling error, and returns no
\* labels, whenever the side is neither Over nor Under (on the raw stat path
\* and on the fallback path alike) and whenever the log has neither a raw
\* stat column nor a fallback target column for the prop type.
C11_LabelingError ==
    (TgtCalled
        /\ \/ tgt_call.over_under \notin {Over, Under}
           \/ /\ ~HasRawStatColumn(tgt_call.df, tgt_call.prop_type)
              /\ ~HasFallbackColumn(tgt_call.df, tgt_call.prop_type)) =>
        tgt_call.ret = LabelError
(***************************************************************************)
(* Claims about process_prop, under Spec.                                  *)
(***************************************************************************)
PpCalled == pp_call.fn = "process_prop"

\* the call got past the side filter, the store answered with at least
\* min_games games, and create_training_data yields a non-empty training set
ReachesTraining ==
    /\ PpCalled
    /\ pp_call.row.over_under = Over
    /\ pp_call.store.k = "ok"
    /\ NRows(pp_call.store.df) >= pp_call.min_games
    /\ LET data == create_training_data(pp_call.store.df, pp_call.row.prop_type,
                                        pp_call.row.line, pp_call.row.over_under)
       IN  data.k = "ok" /\ data.tuple[1].n > 0

WellFormedOdds(odds) == odds.t = "int" /\ odds.v # 0
MalformedOdds(odds) == odds.t = "str" /\ odds.s \in NonNumericStrings

\* C1: for side Over, well-formed odds and a history of at least min_games
\* games with a non-empty training set, process_prop returns a record whose
\* Model_Probability is in [0.10, 0.75], whose Expected_Value is finite and
\* whose Kelly_Fraction is non-negative.
C1_ReturnsRecord ==
    (ReachesTraining /\ WellFormedOdds(pp_call.row.odds)) =>
        /\ pp_call.result.k = "record"
        /\ IsNum(pp_call.result.Model_Probability)
        /\ RLe(Pct(10), pp_call.result.Model_Probability)
        /\ RLe(pp_call.result.Model_Probability, Pct(75))
        /\ IsNum(pp_call.result.Expected_Value)
        /\ IsNum(pp_call.result.Kelly_Fraction)
        /\ RLe(Zero, pp_call.result.Kelly_Fraction)

\* C9: with malformed odds process_prop still returns its record, in which
\* the decimal odds and every value computed from them (implied probability,
\* Expected_Value and its bounds, Edge, Kelly_Fraction) are NaN.
C9_MalformedOddsCarryNaN ==
    (ReachesTraining /\ MalformedOdds(pp_call.row.odds)) =>
        /\ pp_call.result.k = "record"
        /\ IsNaN(pp_call.result.Decimal_Odds)
        /\ IsNaN(pp_call.result.Implied_Probability)
        /\ IsNaN(pp_call.result.Expected_Value)
        /\ IsNaN(pp_call.result.EV_CI_Lower)
        /\ IsNaN(pp_call.result.EV_CI_Upper)
        /\ IsNaN(pp_call.result.Edge)
        /\ IsNaN(pp_call.result.Kelly_Fraction)

(***************************************************************************)
(* Claims about PropPredictor, under SpecPredictor.                        *)
(***************************************************************************)
\* the state of the classifier's state machine an instance is in
Lifecycle(self) ==
    IF self = NoPredictor THEN "NoInstance"
    ELSE IF self.is_trained THEN "Trained"
    ELSE IF HasBaseline(self) THEN "BaselineOnly"
    ELSE "Untrained"

AllIdentical(y) == Len(y) > 0 /\ \A i \in 1..Len(y) : y[i] = y[1]

\* C12: train with a non-empty label series whose values are all identical
\* leaves the instance BaselineOnly (not trained, baseline probability the
\* mean of the series) having run no further step: no split, selector,
\* scaler or model fit; predict_probability on a BaselineOnly instance
\* returns exactly the stored mean.
C12_ConstantLabelsBaseline ==
    /\ (pred_call.fn = "train" /\ AllIdentical(pred_call.y)) =>
           /\ pred_call.ret.k = "ok"
           /\ Lifecycle(pred) = "BaselineOnly"
           /\ pred.baseline_prob = Num(SumSeq(pred_call.y), Len(pred_call.y))
           /\ pred_call.steps = <<>>
           /\ pred = [pred_call.before EXCEPT !.input_feature_names = "set",
                                              !.is_trained = FALSE,
                                              !.baseline_prob = pred.baseline_prob]
           /\ \A proba \in EnsembleAnswers :
                  predict_probability(pred, proba) = pred.baseline_prob
    /\ (pred_call.fn = "predict_probability" /\ Lifecycle(pred) = "BaselineOnly") =>
           pred_call.ret = Answer(pred.baseline_prob)

\* predict_probability has returned the mean 1 of an all-ones series
C12_Witness ==
    /\ pred_call.fn = "predict_probability"
    /\ Lifecycle(pred) = "BaselineOnly"
    /\ pred.baseline_prob = One
    /\ pred.model = "None"
    /\ pred_call.ret = Answer(One)

C14_UntrainedBandFixed ==
    (pred_call.fn = "predict_probability_with_ci" /\ ~pred.is_trained) =>
        LET p == IF HasBaseline(pred) THEN pred.baseline_prob ELSE Pct(50)
        IN  pred_call.ret = ClfTriple(p, RSub(p, Pct(20)), RAdd(p, Pct(20)))

\* C14 (amended): on an instance that is not trained
\* predict_probability_with_ci returns (p, max(0, p - 0.20), min(1, p + 0.20)),
\* p being the stored baseline probability or 0.5 when none was stored.
C14_UntrainedBandClipped ==
    (pred_call.fn = "predict_probability_with_ci" /\ ~pred.is_trained) =>
        LET p == IF HasBaseline(pred) THEN pred.baseline_prob ELSE Pct(50)
        IN  pred_call.ret = ClfTriple(p, RMax(Zero, RSub(p, Pct(20))),
                                      RMin(One, RAdd(p, Pct(20))))

\* a BaselineOnly instance with baseline 0 has answered (0, 0, 0.20)
C14_Witness ==
    /\ pred_call.fn = "predict_probability_with_ci"
    /\ Lifecycle(pred) = "BaselineOnly"
    /\ pred.baseline_prob = Zero
    /\ pred_call.ret = ClfTriple(Zero, Zero, Pct(20))

(***************************************************************************)
(* Claims about prepare_features_for_prediction, under SpecFeatures.       *)
(***************************************************************************)
FeatCalled == feat_call.fn = "prepare_features_for_prediction"

\* the log's columns named feat_...
FeatPrefixed(df) == {col \in SeqRange(df.cols) : StartsWith(col, <<"f", "e", "a", "t", "_">>)}

\* the columns the feature builder engineers from the raw stat column
EngineeredColumns ==
    {col_line_vs_recent_5, col_line_vs_recent_5_pct, col_line_vs_recent_10,
     col_line_vs_recent_10_pct, col_line_vs_season_avg, col_line_vs_season_avg_pct,
     col_line_difficulty, col_recent_similar_line_count, col_trend_5_games,
     col_momentum, col_volatility, col_consistency_score, col_recent_vs_season_5,
     col_recent_vs_season_10, col_rolling_5_x_line, col_line_div_rolling_5,
     col_volatility_x_line}

\* C15: for a log with fewer than 5 rows and a line given, the columns of
\* the returned matrix are exactly the line column and the log's feat_
\* columns, with or without a raw stat column in the log.
C15_ShortLogColumns ==
    (FeatCalled /\ NRows(feat_call.df) < 5 /\ HasLine(feat_call.line)
        /\ FeatPrefixed(feat_call.df) # {}) =>
        /\ feat_call.ret.k = "ok"
        /\ SeqRange(feat_call.ret.cols) = {col_line} \cup FeatPrefixed(feat_call.df)

\* C16: with no raw stat column for the prop type in the log, the columns of
\* the returned matrix are exactly the line column and the log's feat_
\* columns, and nothing else.
C16_OnlyLineAndFeat ==
    (FeatCalled /\ ~HasRawStatColumn(feat_call.df, feat_call.prop_type)
        /\ ~IsNone(feat_call.line) /\ feat_call.ret.k = "ok") =>
        SeqRange(feat_call.ret.cols) = {col_line} \cup FeatPrefixed(feat_call.df)

\* the columns of the log that are features: not an identifier or label
\* column, and either named feat_... or numeric
KeptColumns(df) ==
    {col \in SeqRange(df.cols) :
        /\ col \notin exclude_cols
        /\ \/ StartsWith(col, <<"f", "e", "a", "t", "_">>)
           \/ \A i \in 1..NRows(df) : IsNum(df.rows[i][col]) \/ IsNaN(df.rows[i][col])}

\* C16 (amended): with no raw stat column for the prop type in the log, no
\* engineered column is added; the returned columns are exactly the log's
\* feature columns (its feat_ columns and its other numeric columns that are
\* not identifier or label columns), plus the line column when a line is
\* given; a log without any feature column makes the call raise.
C16_FeatureColumnsAndLine ==
    (FeatCalled /\ ~HasRawStatColumn(feat_call.df, feat_call.prop_type)) =>
        IF KeptColumns(feat_call.df) = {} THEN feat_call.ret = FeatureError
        ELSE /\ feat_call.ret.k = "ok"
             /\ SeqRange(feat_call.ret.cols) \cap EngineeredColumns = {}
             /\ SeqRange(feat_call.ret.cols) =
                    KeptColumns(feat_call.df)
                        \cup (IF IsNone(feat_call.line) THEN {} ELSE {col_line})
             /\ Len(feat_call.ret.cols) = Cardinality(SeqRange(feat_call.ret.cols))

\* a log with feat_roll_pts_5 and is_home but no raw stat column gave the
\* columns feat_roll_pts_5, is_home, line
C16_Witness ==
    /\ FeatCalled
    /\ ~HasRawStatColumn(feat_call.df, feat_call.prop_type)
    /\ HasColumn(feat_call.df, col_is_home)
    /\ feat_call.line = Num(10, 1)
    /\ NRows(feat_call.df) >= 5
    /\ feat_call.ret.k = "ok"
    /\ feat_call.ret.cols = <<col_feat_roll_pts_5, col_is_home, col_line>>

\* C17: whatever the log (any number of rows, NaN in the stat or feat_
\* columns, a zero mean, a zero standard deviation) and whatever the line,
\* no cell of the returned matrix is NaN: every gap is 0.
C17_NoNaN ==
    (FeatCalled /\ feat_call.ret.k = "ok") =>
        /\ Len(feat_call.ret.rows) = NRows(feat_call.df)
        /\ \A i \in 1..Len(feat_call.ret.rows) :
               \A col \in SeqRange(feat_call.ret.cols) :
                   IsNum(feat_call.ret.rows[i][col])

\* ten games of stat 0 (zero mean, zero standard deviation) with a NaN in the
\* feat_ column of the game two before the latest: the gap came out as 0
C17_Witness ==
    /\ FeatCalled
    /\ feat_call.shape = "zero" /\ feat_call.n = 10
    /\ feat_call.prop_type = prop_Points
    /\ HasColumn(feat_call.df, col_pts)
    /\ \E i \in 1..10 : IsNaN(feat_call.df.rows[i][col_feat_roll_pts_5])
    /\ feat_call.ret.k = "ok"
    /\ feat_call.ret.rows[8][col_feat_roll_pts_5] = Zero
    /\ feat_call.ret.rows[8][col_consistency_score] = Num(1, 2)

\* the log of the pending call with its rows in date order
InDateOrder(call) == OrderedFrame(call.df.cols, ShapedGames(call.shape, call.n), "asc")

\* the stat values of the pending call's games in date order
ChronologicalStats(call) == [j \in 1..call.n |-> ShapedGames(call.shape, call.n)[j].stat]

\* C18: the log is sorted ascending by game date before anything is computed:
\* whatever order the rows come in, the result is the one the date-ordered log
\* gives, its rows are the games in ascending date order, and trend and
\* momentum are computed over the chronologically last games.
C18_SortedByDate ==
    FeatCalled =>
        /\ feat_call.ret \in
               {prepare_features_for_prediction(InDateOrder(feat_call),
                    feat_call.prop_type, feat_call.line, polyfit_nan) :
                        polyfit_nan \in {"nan", "raises"}}
        /\ (feat_call.ret.k = "ok" /\ HasColumn(feat_call.df, col_feat_roll_pts_5)) =>
               \A j \in 1..feat_call.n :
                   feat_call.ret.rows[j][col_feat_roll_pts_5] =
                       FillValue(ShapedGames(feat_call.shape, feat_call.n)[j].alt)
        /\ (feat_call.ret.k = "ok" /\ feat_call.n >= 6
                /\ col_trend_5_games \in SeqRange(feat_call.ret.cols)
                /\ ~HasNaN(LastOf(ChronologicalStats(feat_call), 6))) =>
               LET stats == ChronologicalStats(feat_call)
                   n == feat_call.n
                   prev3 == RDiv(RAdd(stats[n - 5], RAdd(stats[n - 4], stats[n - 3])),
                                 Num(3, 1))
                   last3 == RDiv(RAdd(stats[n - 2], RAdd(stats[n - 1], stats[n])),
                                 Num(3, 1))
               IN  /\ feat_call.ret.rows[1][col_trend_5_games] =
                          RDiv(RAdd(RMul(Num(-2, 1), stats[n - 4]),
                                    RAdd(RNeg(stats[n - 3]),
                                         RAdd(stats[n - 1], RMul(Num(2, 1), stats[n])))),
                               Num(10, 1))
                   /\ RLt(Zero, prev3) =>
                          feat_call.ret.rows[1][col_momentum] =
                              RDiv(RSub(last3, prev3), prev3)

\* a log handed over latest game first, whose last five games by date are
\* 8, 8, 12, 12, 12: the trend is 1.2 and the momentum 0.5
C18_Witness ==
    /\ FeatCalled
    /\ feat_call.order = "desc" /\ feat_call.shape = "swing" /\ feat_call.n = 7
    /\ feat_call.prop_type = prop_Points
    /\ HasColumn(feat_call.df, col_pts)
    /\ feat_call.df.rows[1][col_game_date] = Num(7, 1)
    /\ feat_call.ret.k = "ok"
    /\ feat_call.ret.rows[1][col_trend_5_games] = Num(6, 5)
    /\ feat_call.ret.rows[1][col_momentum] = Num(1, 2)

(***************************************************************************)
(* Claims about generate_betting_dataset, under SpecBatch.                 *)
(***************************************************************************)
FailureMessages ==
    {"store", "no labels", "No feature columns found",
     "too many values to unpack (expected 2)", "classifier", "division by zero"}

\* process_prop caught an exception while it worked on the proposition
Failed(outcome) ==
    \E msg \in FailureMessages : outcome.log = "Error processing prop: " \o msg

RECURSIVE RecordsOf(_)
RecordsOf(processed) ==
    IF Len(processed) = 0 THEN <<>>
    ELSE LET rest == RecordsOf(SubSeq(processed, 1, Len(processed) - 1))
             last == processed[Len(processed)].outcome.result
         IN  IF last.k = "record" THEN Append(rest, last) ELSE rest

\* as many rows of the frame as of the results hold each record
SameRecords(final, results) ==
    /\ Len(final) = Len(results)
    /\ \A r \in {final[i] : i \in 1..Len(final)} \cup {results[i] : i \in 1..Len(results)} :
           Cardinality({i \in 1..Len(final) : final[i] = r})
               = Cardinality({i \in 1..Len(results) : results[i] = r})

\* C19: a proposition whose processing fails is skipped and the remaining
\* ones are still processed: no run of generate_betting_dataset is aborted by
\* a row, the passes made so far are the first propositions of the batch in
\* order, the results are exactly the records of the passes that succeeded,
\* and a finished run has passed over every proposition and returns those
\* records.
C19_BatchResilient ==
    /\ batch.status # "aborted"
    /\ Len(batch.processed) <= Len(batch.odds_df)
    /\ \A i \in 1..Len(batch.processed) : batch.processed[i].row = batch.odds_df[i]
    /\ batch.results = RecordsOf(batch.processed)
    /\ batch.status = "done" =>
           /\ Len(batch.processed) = Len(batch.odds_df)
           /\ SameRecords(batch.final, batch.results)

\* a finished run whose first proposition failed and whose second one was
\* processed all the same
C19_Witness ==
    /\ batch.status = "done"
    /\ Len(batch.odds_df) = 2
    /\ Len(batch.processed) = 2
    /\ Failed(batch.processed[1].outcome)

\* the pass got past the side filter, the store answered with at least
\* min_games games, create_training_data yields a non-empty training set and
\* the classifier fits and predicts
TrainsAndPredicts(run, pass) ==
    /\ pass.row.over_under = Over
    /\ pass.store.k = "ok"
    /\ NRows(pass.store.df) >= run.min_games
    /\ pass.clf.k = "ok"
    /\ LET data == create_training_data(pass.store.df, pass.row.prop_type,
                                        pass.row.line, pass.row.over_under)
       IN  data.k = "ok" /\ data.tuple[1].n > 0

\* C20: every proposition that gets to training is given a predictor of its
\* own, constructed in its pass, fitted once and asked for one prediction,
\* and the outcome of its pass is the outcome of process_prop on that
\* proposition alone, whatever was processed before it.
C20_FreshPredictorPerProp ==
    \A i \in 1..Len(batch.processed) :
        LET pass == batch.processed[i]
        IN  /\ pass.outcome = process_prop(pass.row, batch.filter_overs_only,
                                           batch.min_games, pass.store, pass.clf)
            /\ TrainsAndPredicts(batch, pass) =>
                   pass.outcome.predictor = PredictorUse(TRUE, 1, 1)

\* the game of a history with the latest game_date
LatestGame(df) ==
    CHOOSE date \in {df.rows[i][col_game_date] : i \in 1..NRows(df)} :
        \A i \in 1..NRows(df) : RLe(df.rows[i][col_game_date], date)

\* C24: a pass that gets to training with a classifier that fits and
\* predicts has predicted from the row of the game with the latest game_date
\* of the history the store returned.
C24_PredictsFromLatestGame ==
    \A i \in 1..Len(batch.processed) :
        TrainsAndPredicts(batch, batch.processed[i]) =>
            batch.processed[i].outcome.recent = LatestGame(batch.processed[i].store.df)

(***************************************************************************)
(* Claims about track_outcomes.py, under SpecTrack.                        *)
(***************************************************************************)
\* C21: for a side Over or Under determine_outcome returns None exactly when
\* the actual stat equals the line, and otherwise True or False by strict
\* inequality for the side; and no row of bet_tracking records a proposition
\* whose actual stat equals its line.
C21_PushExactlyOnTie ==
    /\ (do_call.fn = "determine_outcome" /\ do_call.over_under \in {Over, Under}) =>
           /\ (do_call.ret = "None") <=> (do_call.actual_stat = do_call.line)
           /\ do_call.ret # "None" =>
                  (do_call.ret = "True") <=>
                      IF do_call.over_under = Over
                        THEN Gt(do_call.actual_stat, do_call.line)
                      ELSE Lt(do_call.actual_stat, do_call.line)
    /\ \A i \in 1..Len(bet_tracking) :
           /\ bet_tracking[i].outcome \in {"True", "False"}
           /\ bet_tracking[i].actual_result # processed_props[bet_tracking[i].prop_id].line

\* C29: no prop_id has more than one bet_tracking row, whatever the runs of
\* process_past_props did and however their steps interleaved.
C29_OneRowPerProp ==
    \A id \in DOMAIN processed_props : Cardinality(RowsOf(bet_tracking, id)) <= 1

TrainCalled == train_call.fn = "create_training_data" /\ train_call.ret.k = "ok"

\* C22: in every returned training set, whatever the row order of the log,
\* the label of a row is the label of the game whose features form the row.
C22_LabelOfSameGame ==
    TrainCalled =>
        \A i \in 1..Len(train_call.ret.pairs) :
            train_call.ret.pairs[i].x_game = train_call.ret.pairs[i].y_game

\* the hit rate at similar lines over the games of the log played strictly
\* before the date, 0.5 when none of them is within 1.5 of the line
HitRateBefore(df, prop_type, line, over_under, date) ==
    LET stat == FindStatColumn(df.cols, prop_type)
        y == create_target_variable(df, prop_type, line, over_under).labels
        similar == {j \in 1..NRows(df) :
                        /\ RLt(GameOf(df, j), date)
                        /\ IsNum(df.rows[j][stat.col])
                        /\ RLe(RAbs(RSub(df.rows[j][stat.col], line)), Num(3, 2))}
    IN  IF similar = {} THEN Num(1, 2)
        ELSE Num(Cardinality({j \in similar : y[j] = 1}), Cardinality(similar))

\* C23: the historical_hit_rate_similar_line of a feature row is the hit rate
\* over the games played strictly before the row's game, for any row order
\* of the log.
C23_HitRateFromEarlierGames ==
    TrainCalled =>
        \A i \in 1..Len(train_call.ret.pairs) :
            col_historical_hit_rate_similar_line \in DOMAIN train_call.ret.pairs[i].x =>
                train_call.ret.pairs[i].x[col_historical_hit_rate_similar_line]
                    = HitRateBefore(train_call.df, train_call.prop_type, train_call.line,
                                    train_call.over_under, train_call.ret.pairs[i].x_game)

\* C25: when the labels are derived from a raw stat column, that column is
\* not a column of X, so no row of X holds the actual value its own game's
\* label is derived from.
C25_NoLabelSourceInFeatures ==
    TrainCalled =>
        LET stat == FindStatColumn(train_call.df.cols, train_call.prop_type)
        IN  stat.found =>
                \A i \in 1..Len(train_call.ret.pairs) :
                    LET pair == train_call.ret.pairs[i]
                    IN  ~ /\ stat.col \in DOMAIN pair.x
                          /\ pair.x_game = pair.y_game
                          /\ \E j \in 1..NRows(train_call.df) :
                                 /\ GameOf(train_call.df, j) = pair.y_game
                                 /\ IsNum(train_call.df.rows[j][stat.col])
                                 /\ pair.x[stat.col] = train_call.df.rows[j][stat.col]

(***************************************************************************)
(* Claims about the records of process_prop, under SpecRecord.             *)
(***************************************************************************)
RecordBuilt == rec_call.fn = "record" /\ rec_call.ret.k = "record"

\* C26: in every record built from a classifier triple with
\* lower <= probability <= upper, Probability_CI_Lower <= Model_Probability
\* <= Probability_CI_Upper, for every odds: the market blend and the final
\* clamps keep the order.
C26_ProbabilityWithinInterval ==
    RecordBuilt =>
        /\ RLe(rec_call.ret.Probability_CI_Lower, rec_call.ret.Model_Probability)
        /\ RLe(rec_call.ret.Model_Probability, rec_call.ret.Probability_CI_Upper)

\* a record whose triple was blended with the market and clamped
C26_Witness ==
    /\ RecordBuilt
    /\ rec_call.odds = IntOdds(150)
    /\ rec_call.clf = ClfTriple(One, One, One)
    /\ rec_call.ret.Model_Probability = Pct(70)
    /\ rec_call.ret.Probability_CI_Lower = Pct(65)
    /\ rec_call.ret.Probability_CI_Upper = Pct(75)

\* modeling.py:303-315, 411: the three values of a trained classifier are
\* calibrated, each within [0.10, 0.75]
Calibrated(x) == RLe(Pct(10), x) /\ RLe(x, Pct(75))
CalibratedTriple(clf) == Calibrated(clf.prob) /\ Calibrated(clf.lower) /\ Calibrated(clf.upper)

\* C27: in every record built for well-formed odds from the triple of a
\* trained classifier, EV_CI_Lower <= Expected_Value <= EV_CI_Upper: the
\* expected values at the lower bound, the point and the upper bound, with the
\* same odds and implied probability, are ordered like the probabilities.
C27_ExpectedValueWithinInterval ==
    (RecordBuilt /\ WellFormedOdds(rec_call.odds) /\ CalibratedTriple(rec_call.clf)) =>
        /\ IsNum(rec_call.ret.Expected_Value)
        /\ RLe(rec_call.ret.EV_CI_Lower, rec_call.ret.Expected_Value)
        /\ RLe(rec_call.ret.Expected_Value, rec_call.ret.EV_CI_Upper)

(***************************************************************************)
(* Claim about calculate_kelly_criterion and calculate_expected_value,     *)
(* under SpecEV.                                                           *)
(***************************************************************************)
KellyCalled ==
    /\ ev_call.fn = "calculate_kelly_criterion"
    /\ IsNum(ev_call.p)
    /\ IsNum(ev_call.d)

\* C28: for every probability p in [0,1] and decimal odds d > 1,
\* calculate_kelly_criterion(p, d) > 0 exactly when calculate_expected_value(p, d),
\* with the implied probability derived from the odds, is > 0.
C28_StakeIffPositiveEV ==
    KellyCalled =>
        (RLt(Zero, ev_call.ret)
            <=> RLt(Zero, calculate_expected_value(ev_call.p, ev_call.d, NoneV)))

\* a call that recommends a stake for a probability more than 0.15 above the
\* implied probability, where the expected value is market-adjusted
C28_Witness ==
    /\ KellyCalled
    /\ RLt(Zero, ev_call.ret)
    /\ RLt(Pct(15), RSub(ev_call.p, RDiv(One, ev_call.d)))

====
